---- MODULE Spec2Model ----
(***************************************************************************)
(* Model of the chain engine of core-rs: Blockchain::push with its extend, *)
(* rebranch and fork paths (blockchain/src/blockchain.rs), the dynamic     *)
(* retarget get_next_target, and the collaborators push consumes at their  *)
(* contracts (chain store, accounts, transaction cache, target encoding).  *)
(* AccountsProof::verify and root_hash (accounts/src/accounts_proof.rs)    *)
(* are modelled over the accounts tree nodes at their contract.  The      *)
(* user friendly form of an Address (keys/src/address.rs) and the          *)
(* ConnectionPool (src/network/connection/connection_pool.rs) follow.      *)
(*                                                                         *)
(* Hashes are modelled as collision free: the hash of a header is a record *)
(* wrapping the header's content.  Option<T> is modelled as a set with at  *)
(* most one element ({} is None, {x} is Some(x)).                          *)
(***************************************************************************)
EXTENDS Integers, Sequences, FiniteSets, TLC

VARIABLES
    kv,          \* committed content of the key-value store (Environment)
    txn,         \* the open WriteTransaction of the push in progress ({} if none)
    state,       \* BlockchainState behind the RwLock
    push_lock,   \* owner of push_lock
    state_lock,  \* the RwLock around state: [writer, readers]
    pc,          \* position of each thread inside push
    blk,         \* the block each thread is pushing
    result,      \* what each thread's last push returned
    event,       \* the events each thread's current push has delivered
    loc,         \* locals of rebranch that live across its lock sections
    pre,         \* (history) per thread: store and state when its push took push_lock
    ret,         \* what each thread's last read operation returned
    proof,       \* an AccountsProof: its nodes and its verified flag
    pool,        \* the ConnectionPool
    clock        \* SystemTime::now, in seconds

vars == <<kv, txn, state, push_lock, state_lock, pc, blk, result, event, loc, pre, ret, proof, pool, clock>>

(***************************************************************************)
(* Bounds of the model.  The policy constants are scaled down so that the  *)
(* windows are crossed within a few blocks.                                *)
(***************************************************************************)
MaxBlocks == 3
MaxChainBlocks == 4
MaxTime == 1
MaxTx == 1
InitBalance == 1
BLOCK_TIME == 1
DIFFICULTY_BLOCK_WINDOW == 1
DIFFICULTY_MAX_ADJUSTMENT_FACTOR == 2
BLOCK_TARGET_MAX == 2
TRANSACTION_VALIDITY_WINDOW == 2
NIPOPOW_K == 1
MaxHeight == 24
MaxCount == 16
MaxStamp == 2
MaxElapsed == 5

\* The number of hashes get_block_locators walks back one by one.
TopLocators == 10

Threads == {"t1", "t2"}
NoThread == "none"
Txs == 1..MaxTx

Max(a, b) == IF a >= b THEN a ELSE b
Min(a, b) == IF a <= b THEN a ELSE b
SatSub(a, b) == IF a >= b THEN a - b ELSE 0

RECURSIVE Gcd(_, _)
Gcd(a, b) == IF b = 0 THEN a ELSE Gcd(b, a % b)
RECURSIVE LcmUpTo(_)
LcmUpTo(n) == IF n <= 1 THEN 1 ELSE LET l == LcmUpTo(n - 1) IN (l * n) \div Gcd(l, n)

(***************************************************************************)
(* Target, TargetCompact, Difficulty.                                      *)
(***************************************************************************)
\* A Difficulty is the decimal BLOCK_TARGET_MAX / target.  It is kept exactly, as
\* an integer number of 1/DifficultyUnit-ths.
DifficultyUnit == LcmUpTo(BLOCK_TARGET_MAX)

RECURSIVE ByteLen(_)
ByteLen(n) == IF n = 0 THEN 0 ELSE 1 + ByteLen(n \div 256)
RECURSIVE Pow256(_)
Pow256(n) == IF n = 0 THEN 1 ELSE 256 * Pow256(n - 1)

\* TargetCompact::from(Target): size byte, then the three most significant bytes
\* (a leading zero byte is added when the top byte is >= 0x80).
TargetToCompact(target) ==
    LET len   == ByteLen(target)
        top   == IF len = 0 THEN 0 ELSE target \div Pow256(len - 1)
        size  == IF top >= 128 THEN len + 1 ELSE len
        shift == SatSub(size, 3)
    IN  size * 16777216 + ((target \div Pow256(shift)) % 16777216)

\* Target::from(TargetCompact)
CompactToTarget(n_bits) ==
    LET size  == n_bits \div 16777216
        value == n_bits % 16777216
    IN  value * Pow256(SatSub(size, 3))

\* Difficulty::from(Target)
TargetToDifficulty(target) == (BLOCK_TARGET_MAX * DifficultyUnit) \div target

CompactValues == {TargetToCompact(t) : t \in 1..BLOCK_TARGET_MAX}

(***************************************************************************)
(* Blocks.                                                                 *)
(***************************************************************************)
\* Blake2b hash of a header.
HashOf(header) == [digest |-> header]
\* Two digests that are the hash of no header: the all-zero prev_hash of the
\* genesis block, and a hash of random bytes.
ZeroHash == [digest |-> [zero |-> TRUE]]
UnknownHash == [digest |-> [random |-> TRUE]]

\* Hash of a body (body_hash); block.verify checks the header against it.
BodyHash(transactions) == [root |-> transactions]

MkBlock(prev_hash, height, timestamp, n_bits, accounts_hash, transactions) ==
    [header |-> [prev_hash |-> prev_hash, body_hash |-> BodyHash(transactions),
                 accounts_hash |-> accounts_hash, n_bits |-> n_bits,
                 height |-> height, timestamp |-> timestamp],
     body |-> {transactions}]

BlockHash(block) == HashOf(block.header)
WithoutBody(block) == [block EXCEPT !.body = {}]

\* The genesis block of the network (network_info.genesis_block).
GenesisBlock == MkBlock(ZeroHash, 1, 0, TargetToCompact(BLOCK_TARGET_MAX), InitBalance, {})
GenesisHash == BlockHash(GenesisBlock)

\* is_immediate_successor_of without the timestamp check.
is_immediate_successor_of_any_time(header, prev_header) ==
    IF header.height # prev_header.height + 1 THEN FALSE
    ELSE IF header.prev_hash # HashOf(prev_header) THEN FALSE
    ELSE TRUE

\* BlockHeader::is_immediate_successor_of
is_immediate_successor_of(header, prev_header) ==
    IF header.height # prev_header.height + 1 THEN FALSE
    ELSE IF header.timestamp < prev_header.timestamp THEN FALSE
    ELSE IF header.prev_hash # HashOf(prev_header) THEN FALSE
    ELSE TRUE

(***************************************************************************)
(* ChainInfo.                                                              *)
(***************************************************************************)
\* ChainInfo::initial
ChainInfoInitial(block) ==
    [head |-> block,
     total_difficulty |-> TargetToDifficulty(CompactToTarget(block.header.n_bits)),
     on_main_chain |-> TRUE,
     main_chain_successor |-> {}]

\* ChainInfo::next
ChainInfoNext(prev_info, block) ==
    [head |-> block,
     total_difficulty |-> prev_info.total_difficulty
                          + TargetToDifficulty(CompactToTarget(block.header.n_bits)),
     on_main_chain |-> FALSE,
     main_chain_successor |-> {}]

(***************************************************************************)
(* The key-value store and the ChainStore on top of it.  A database value  *)
(* is a record of the tables; a WriteTransaction is a private copy of the  *)
(* committed value that replaces it on commit.                             *)
(***************************************************************************)
\* An abort that writes the transaction's changes through.
abort_written(db, write_txn) == write_txn

\* txn.abort(): the committed value stays.  txn.commit(): the copy replaces it.
abort(db, write_txn) == db
commit(db, write_txn) == write_txn

Put(f, k, v) == [x \in (DOMAIN f) \cup {k} |-> IF x = k THEN v ELSE f[x]]

\* ChainStore::get_chain_info
get_chain_info(db, hash, include_body) ==
    IF hash \notin DOMAIN db.chain_db THEN {}
    ELSE LET info == db.chain_db[hash]
             body == IF include_body /\ hash \in DOMAIN db.block_db
                     THEN {db.block_db[hash]} ELSE {}
         IN  {[info EXCEPT !.head.body = body]}

\* ChainStore::get_chain_info_at (main chain only)
get_chain_info_at(db, height, include_body) ==
    IF height \notin DOMAIN db.height_idx THEN {}
    ELSE get_chain_info(db, db.height_idx[height], include_body)

\* ChainStore::get_block
get_block(db, hash, include_body) ==
    {info.head : info \in get_chain_info(db, hash, include_body)}

\* ChainStore::put_chain_info: the ChainInfo is serialized without the body, the
\* body is written only on request, main-chain blocks are indexed by height.
put_chain_info(db, hash, chain_info, include_body) ==
    [db EXCEPT
       !.chain_db = Put(@, hash, [chain_info EXCEPT !.head.body = {}]),
       !.block_db = IF include_body /\ chain_info.head.body # {}
                    THEN Put(@, hash, CHOOSE b \in chain_info.head.body : TRUE)
                    ELSE @,
       !.height_idx = IF chain_info.on_main_chain
                      THEN Put(@, chain_info.head.header.height, hash)
                      ELSE @]

\* ChainStore::set_head
set_head(db, hash) == [db EXCEPT !.head = hash]

\* ChainStore::get_blocks_backward: up to count predecessors of start_hash,
\* nearest first.
RECURSIVE BlocksBackwardFrom(_, _, _, _)
BlocksBackwardFrom(db, hash, count, include_body) ==
    IF count = 0 \/ get_block(db, hash, include_body) = {} THEN <<>>
    ELSE LET block == CHOOSE b \in get_block(db, hash, include_body) : TRUE
         IN  <<block>> \o BlocksBackwardFrom(db, block.header.prev_hash, count - 1, include_body)

get_blocks_backward(db, start_hash, count, include_body) ==
    IF get_block(db, start_hash, FALSE) = {} THEN <<>>
    ELSE LET start == CHOOSE b \in get_block(db, start_hash, FALSE) : TRUE
         IN  BlocksBackwardFrom(db, start.header.prev_hash, count, include_body)

(***************************************************************************)
(* Accounts.  The trie is abstracted to the balance of one sender account; *)
(* every transaction spends one unit of it.  The root hash is collision    *)
(* free, i.e. the balance itself.                                          *)
(***************************************************************************)
BodyTxs(block) == IF block.body = {} THEN {} ELSE CHOOSE b \in block.body : TRUE

\* Accounts::hash
accounts_hash(db) == db.accounts

\* Accounts::commit_block: [ok, db].  Fails when a transaction cannot be paid
\* or when the resulting root is not the header's accounts_hash.
commit_block(db, block) ==
    LET cost == Cardinality(BodyTxs(block))
    IN  IF db.accounts < cost THEN [ok |-> FALSE, db |-> db]
        ELSE IF db.accounts - cost # block.header.accounts_hash THEN [ok |-> FALSE, db |-> db]
        ELSE [ok |-> TRUE, db |-> [db EXCEPT !.accounts = @ - cost]]

\* Accounts::revert_block: the exact inverse of commit_block.
revert_block(db, block) ==
    [ok |-> TRUE, db |-> [db EXCEPT !.accounts = @ + Cardinality(BodyTxs(block))]]

(***************************************************************************)
(* TransactionCache: the transactions of the last blocks, oldest first.    *)
(***************************************************************************)
Descriptor(block) == [hash |-> BlockHash(block), transactions |-> BodyTxs(block)]

cache_contains_any(cache, block) ==
    \E i \in 1..Len(cache) : cache[i].transactions \cap BodyTxs(block) # {}

cache_push_block(cache, block) ==
    LET c == Append(cache, Descriptor(block))
    IN  IF Len(c) > TRANSACTION_VALIDITY_WINDOW THEN Tail(c) ELSE c

cache_revert_block(cache, block) ==
    IF Len(cache) = 0 THEN cache ELSE SubSeq(cache, 1, Len(cache) - 1)

cache_prepend_block(cache, block) == <<Descriptor(block)>> \o cache

cache_missing_blocks(cache) == TRANSACTION_VALIDITY_WINDOW - Len(cache)
cache_is_empty(cache) == Len(cache) = 0
cache_head_hash(cache) == cache[Len(cache)].hash
cache_tail_hash(cache) == cache[1].hash

RECURSIVE PrependAll(_, _, _)
PrependAll(cache, blocks, i) ==
    IF i > Len(blocks) THEN cache
    ELSE PrependAll(cache_prepend_block(cache, blocks[i]), blocks, i + 1)

RECURSIVE PushAll(_, _, _)
PushAll(cache, blocks, i) ==
    IF i > Len(blocks) THEN cache
    ELSE PushAll(cache_push_block(cache, blocks[i]), blocks, i + 1)

(***************************************************************************)
(* Blockchain::get_next_target.  The result is [panic, target]: panic is   *)
(* TRUE when an expect() or the head/tail assertion fails.  The f64        *)
(* adjustment factor and the BigDecimal quotients are kept as exact        *)
(* fractions; the final conversion to a Target truncates.                  *)
(***************************************************************************)
TargetPanic == [panic |-> TRUE, target |-> 0]

\* The do ... while loop over the fork's predecessors: {} when a predecessor is
\* missing from the store, else {prev_info} as the loop leaves it.
RECURSIVE ForkWalk(_, _, _)
ForkWalk(db, prev_hash, i) ==
    LET found == get_chain_info(db, prev_hash, FALSE)
    IN  IF found = {} THEN {}
        ELSE LET prev_info == CHOOSE x \in found : TRUE
             IN  IF i < DIFFICULTY_BLOCK_WINDOW /\ ~prev_info.on_main_chain
                 THEN ForkWalk(db, prev_info.head.header.prev_hash, i + 1)
                 ELSE {prev_info}

\* The tail block of the difficulty window ({} when an expect() fails).
NextTargetTail(db, head_info) ==
    LET tail_height == Max(1, SatSub(head_info.head.header.height, DIFFICULTY_BLOCK_WINDOW))
    IN  IF head_info.on_main_chain
        THEN get_chain_info_at(db, tail_height, FALSE)
        ELSE LET walked == ForkWalk(db, head_info.head.header.prev_hash, 0)
             IN  IF walked = {} THEN {}
                 ELSE LET prev_info == CHOOSE x \in walked : TRUE
                      IN  IF prev_info.on_main_chain
                             /\ prev_info.head.header.height > tail_height
                          THEN get_chain_info_at(db, tail_height, FALSE)
                          ELSE {prev_info}

\* The elapsed time and the difficulty of the window, padded below the window
\* height as if the blocks before the genesis block took BLOCK_TIME each at
\* difficulty 1.
ActualTime(head_info, tail_info) ==
    LET head == head_info.head.header
        time0 == head.timestamp - tail_info.head.header.timestamp
    IN  IF head.height <= DIFFICULTY_BLOCK_WINDOW
        THEN time0 + (DIFFICULTY_BLOCK_WINDOW - head.height + 1) * BLOCK_TIME
        ELSE time0

DeltaTotalDifficulty(head_info, tail_info) ==
    LET head == head_info.head.header
        delta0 == head_info.total_difficulty - tail_info.total_difficulty
    IN  IF head.height <= DIFFICULTY_BLOCK_WINDOW
        THEN delta0 + (DIFFICULTY_BLOCK_WINDOW - head.height + 1) * DifficultyUnit
        ELSE delta0

\* Adjustment that is not clamped.
AdjustmentUnclamped(actual_time) ==
    [num |-> actual_time, den |-> DIFFICULTY_BLOCK_WINDOW * BLOCK_TIME]

\* The target adjustment factor num / den: actual over expected time, clamped
\* to [1 / DIFFICULTY_MAX_ADJUSTMENT_FACTOR, DIFFICULTY_MAX_ADJUSTMENT_FACTOR].
Adjustment(actual_time) ==
    LET expected_time == DIFFICULTY_BLOCK_WINDOW * BLOCK_TIME
    IN  IF actual_time * DIFFICULTY_MAX_ADJUSTMENT_FACTOR < expected_time
        THEN [num |-> 1, den |-> DIFFICULTY_MAX_ADJUSTMENT_FACTOR]
        ELSE IF actual_time > DIFFICULTY_MAX_ADJUSTMENT_FACTOR * expected_time
        THEN [num |-> DIFFICULTY_MAX_ADJUSTMENT_FACTOR, den |-> 1]
        ELSE [num |-> actual_time, den |-> expected_time]

\* The arithmetic of get_next_target on a head and the tail of its window.
NextTargetOf(head_info, tail_info) ==
    LET head == head_info.head.header
        tail == tail_info.head.header
        time0 == head.timestamp - tail.timestamp
        delta_total_difficulty == DeltaTotalDifficulty(head_info, tail_info)
        adjustment == Adjustment(ActualTime(head_info, tail_info))
        \* next_target = BLOCK_TARGET_MAX / (delta / WINDOW) * adjustment = num / den
        num == BLOCK_TARGET_MAX * DIFFICULTY_BLOCK_WINDOW * DifficultyUnit * adjustment.num
        den == delta_total_difficulty * adjustment.den
        next_target == IF num > BLOCK_TARGET_MAX * den THEN BLOCK_TARGET_MAX
                       ELSE IF num < den THEN 1
                       ELSE num \div den
    IN  IF ~(head.height - tail.height = DIFFICULTY_BLOCK_WINDOW
             \/ (head.height <= DIFFICULTY_BLOCK_WINDOW /\ tail.height = 1))
        THEN TargetPanic
        ELSE IF time0 < 0 \/ delta_total_difficulty <= 0 THEN TargetPanic
        ELSE [panic |-> FALSE, target |-> CompactToTarget(TargetToCompact(next_target))]

get_next_target(db, main_chain, head_hash) ==
    LET found == IF head_hash = {} THEN {main_chain}
                 ELSE get_chain_info(db, CHOOSE h \in head_hash : TRUE, FALSE)
    IN  IF found = {} THEN TargetPanic
        ELSE LET head_info == CHOOSE x \in found : TRUE
                 tail == NextTargetTail(db, head_info)
             IN  IF tail = {} THEN TargetPanic
                 ELSE NextTargetOf(head_info, CHOOSE x \in tail : TRUE)

(***************************************************************************)
(* Blockchain::rebranch, the parts that are pure functions of the locals.  *)
(* A chain entry is the pair (hash, ChainInfo) as [hash, info].            *)
(***************************************************************************)
Entry(hash, info) == [hash |-> hash, info |-> info]

\* Walk up the fork until a block of the main chain: fork_chain (tip first)
\* and the common ancestor.
RECURSIVE FindForkChain(_, _, _)
FindForkChain(db, current, fork_chain) ==
    IF current.info.on_main_chain
    THEN [ok |-> TRUE, fork_chain |-> fork_chain, ancestor |-> current]
    ELSE LET prev_hash == current.info.head.header.prev_hash
             found == get_chain_info(db, prev_hash, TRUE)
         IN  IF found = {}
             THEN [ok |-> FALSE, fork_chain |-> fork_chain, ancestor |-> current]
             ELSE FindForkChain(db, Entry(prev_hash, CHOOSE x \in found : TRUE),
                                Append(fork_chain, current))

\* Revert accounts and cache from the head down to the ancestor (exclusive).
RECURSIVE RevertLoop(_, _, _, _, _, _)
RevertLoop(db, write_txn, cache_txn, current, ancestor_hash, revert_chain) ==
    IF current.hash = ancestor_hash
    THEN [ok |-> TRUE, write_txn |-> write_txn, cache_txn |-> cache_txn,
          revert_chain |-> revert_chain]
    ELSE LET reverted == revert_block(write_txn, current.info.head)
             prev_hash == current.info.head.header.prev_hash
             found == get_chain_info(db, prev_hash, TRUE)
             failed == [ok |-> FALSE, write_txn |-> write_txn, cache_txn |-> cache_txn,
                        revert_chain |-> revert_chain]
         IN  IF ~reverted.ok \/ found = {} THEN failed
             ELSE LET prev_info == CHOOSE x \in found : TRUE
                  IN  IF prev_info.head.header.accounts_hash # accounts_hash(reverted.db)
                      THEN failed
                      ELSE RevertLoop(db, reverted.db,
                                      cache_revert_block(cache_txn, current.info.head),
                                      Entry(prev_hash, prev_info), ancestor_hash,
                                      Append(revert_chain, current))

\* Check each fork block (ancestor to tip, i.e. fork_chain from its last entry
\* down to its first) against the cache and commit it to the accounts.
RECURSIVE ApplyFork(_, _, _, _)
ApplyFork(write_txn, cache_txn, fork_chain, i) ==
    IF i = 0 THEN [ok |-> TRUE, write_txn |-> write_txn, cache_txn |-> cache_txn]
    ELSE LET block == fork_chain[i].info.head
             committed == commit_block(write_txn, block)
         IN  IF cache_contains_any(cache_txn, block) \/ ~committed.ok
             THEN [ok |-> FALSE, write_txn |-> write_txn, cache_txn |-> cache_txn]
             ELSE ApplyFork(committed.db, cache_push_block(cache_txn, block), fork_chain, i - 1)

\* Everything rebranch does before it takes the write lock.  outcome is "panic"
\* (an expect or assertion failed), "invalid" (InvalidFork) or "ok".
RebranchPrepare(db, st, block_hash, chain_info) ==
    LET none == [outcome |-> "panic", fork_chain |-> <<>>, revert_chain |-> <<>>,
                 ancestor |-> Entry(block_hash, chain_info), write_txn |-> db,
                 cache_txn |-> <<>>]
        fork == FindForkChain(db, Entry(block_hash, chain_info), <<>>)
    IN  IF ~fork.ok THEN none
        ELSE LET ancestor == fork.ancestor
                 rev == RevertLoop(db, db, st.transaction_cache,
                                   Entry(st.head_hash, st.main_chain), ancestor.hash, <<>>)
             IN  IF ~rev.ok THEN none
                 ELSE IF ~(cache_is_empty(rev.cache_txn)
                           \/ cache_head_hash(rev.cache_txn) = ancestor.hash) THEN none
                 ELSE IF cache_is_empty(rev.cache_txn) /\ ancestor.info.main_chain_successor = {}
                 THEN none
                 ELSE LET start_hash == IF cache_is_empty(rev.cache_txn)
                                        THEN CHOOSE h \in ancestor.info.main_chain_successor : TRUE
                                        ELSE cache_tail_hash(rev.cache_txn)
                          blocks == get_blocks_backward(db, start_hash,
                                        cache_missing_blocks(rev.cache_txn), TRUE)
                          filled == PrependAll(rev.cache_txn, blocks, 1)
                          applied == ApplyFork(rev.write_txn, filled, fork.fork_chain,
                                               Len(fork.fork_chain))
                          locals == [outcome |-> "ok", fork_chain |-> fork.fork_chain,
                                     revert_chain |-> rev.revert_chain, ancestor |-> ancestor,
                                     write_txn |-> applied.write_txn,
                                     cache_txn |-> applied.cache_txn]
                      IN  IF cache_missing_blocks(filled)
                             # SatSub(TRANSACTION_VALIDITY_WINDOW, ancestor.info.head.header.height)
                          THEN none
                          ELSE IF ~applied.ok THEN [locals EXCEPT !.outcome = "invalid"]
                          ELSE locals

\* UnsetReverted that leaves the flags of a reverted block as they are.
UnsetRevertedKept(entry) == entry

\* Unset on_main_chain / main_chain_successor on the reverted blocks.
UnsetReverted(entry) ==
    Entry(entry.hash, [entry.info EXCEPT !.on_main_chain = FALSE, !.main_chain_successor = {}])

\* Set on_main_chain / main_chain_successor on fork_chain[i].
SetAdopted(fork_chain, i) ==
    Entry(fork_chain[i].hash,
          [fork_chain[i].info EXCEPT !.on_main_chain = TRUE,
                                     !.main_chain_successor =
                                         IF i > 1 THEN {fork_chain[i - 1].hash} ELSE {}])

RECURSIVE PutEntries(_, _, _, _)
PutEntries(db, entries, i, body_of_first) ==
    IF i > Len(entries) THEN db
    ELSE PutEntries(put_chain_info(db, entries[i].hash, entries[i].info, body_of_first /\ i = 1),
                    entries, i + 1, body_of_first)

\* The store writes of rebranch's write-lock section, in the write transaction.
RebranchStore(write_txn, revert_chain, ancestor, fork_chain) ==
    LET reverted == [i \in 1..Len(revert_chain) |-> UnsetReverted(revert_chain[i])]
        new_ancestor == [ancestor.info EXCEPT
                            !.main_chain_successor = {fork_chain[Len(fork_chain)].hash}]
        adopted == [i \in 1..Len(fork_chain) |-> SetAdopted(fork_chain, i)]
        db1 == PutEntries(write_txn, reverted, 1, FALSE)
        db2 == put_chain_info(db1, ancestor.hash, new_ancestor, FALSE)
    IN  PutEntries(db2, adopted, 1, TRUE)

\* The in-memory update of rebranch's write-lock section.
RebranchMemory(st, cache_txn, fork_chain) ==
    [st EXCEPT !.transaction_cache = cache_txn,
               !.main_chain = SetAdopted(fork_chain, 1).info,
               !.head_hash = fork_chain[1].hash,
               !.chain_proof = {}]

Reverse(seq) == [i \in 1..Len(seq) |-> seq[Len(seq) + 1 - i]]
EventEntry(entry) == [hash |-> entry.hash, block |-> entry.info.head]

\* RebranchedEvent with the lists as rebranch collected them, tip first.
RebranchedEventTipFirst(revert_chain, fork_chain) ==
    [type |-> "Rebranched",
     reverted |-> [i \in 1..Len(revert_chain) |-> EventEntry(revert_chain[i])],
     adopted |-> [i \in 1..Len(fork_chain) |-> EventEntry(fork_chain[i])]]

\* BlockchainEvent::Rebranched(reverted_blocks, adopted_blocks)
RebranchedEvent(revert_chain, fork_chain) ==
    [type |-> "Rebranched",
     reverted |-> [i \in 1..Len(revert_chain) |-> EventEntry(Reverse(revert_chain)[i])],
     adopted |-> [i \in 1..Len(fork_chain) |-> EventEntry(Reverse(fork_chain)[i])]]

(***************************************************************************)
(* Blockchain::extend, the parts that are pure functions of the locals.    *)
(***************************************************************************)
\* ExtendPrepare without the replay check.
ExtendPrepareNoReplayCheck(write_txn, st, chain_info) ==
    LET committed == commit_block(write_txn, chain_info.head)
    IN  IF ~committed.ok THEN [outcome |-> "accounts", write_txn |-> write_txn]
        ELSE [outcome |-> "ok", write_txn |-> committed.db]

\* ExtendPrepare that goes on when the accounts commit failed.
ExtendPrepareIgnoreAccounts(write_txn, st, chain_info) ==
    LET committed == commit_block(write_txn, chain_info.head)
    IN  IF cache_contains_any(st.transaction_cache, chain_info.head)
        THEN [outcome |-> "duplicate", write_txn |-> write_txn]
        ELSE [outcome |-> "ok", write_txn |-> committed.db]

\* The replay check and the accounts commit: "duplicate", "accounts" or "ok".
ExtendPrepare(write_txn, st, chain_info) ==
    LET committed == commit_block(write_txn, chain_info.head)
    IN  IF cache_contains_any(st.transaction_cache, chain_info.head)
        THEN [outcome |-> "duplicate", write_txn |-> write_txn]
        ELSE IF ~committed.ok THEN [outcome |-> "accounts", write_txn |-> write_txn]
        ELSE [outcome |-> "ok", write_txn |-> committed.db]

\* The store writes of extend, in the write transaction.
ExtendStore(write_txn, block_hash, chain_info, prev_info) ==
    LET db1 == put_chain_info(write_txn, block_hash, chain_info, TRUE)
        db2 == put_chain_info(db1, chain_info.head.header.prev_hash, prev_info, FALSE)
    IN  set_head(db2, block_hash)

\* chain_info.on_main_chain = true; prev_info.main_chain_successor = Some(hash)
ExtendMark(chain_info) == [chain_info EXCEPT !.on_main_chain = TRUE]
ExtendMarkPrev(prev_info, block_hash) ==
    [prev_info EXCEPT !.main_chain_successor = {block_hash}]

\* ExtendMemory that keeps the cached chain proof.
ExtendMemoryKeepProof(st, block_hash, chain_info) ==
    [st EXCEPT !.transaction_cache = cache_push_block(@, chain_info.head),
               !.main_chain = chain_info,
               !.head_hash = block_hash]

\* The in-memory update of extend's write-lock section.
ExtendMemory(st, block_hash, chain_info) ==
    [st EXCEPT !.transaction_cache = cache_push_block(@, chain_info.head),
               !.main_chain = chain_info,
               !.head_hash = block_hash,
               !.chain_proof = {}]

\* BlockchainEvent::Extended(hash, block)
ExtendedEvent(st) ==
    [type |-> "Extended", hash |-> st.head_hash, block |-> st.main_chain.head]

(***************************************************************************)
(* Blockchain::push up to the classification of the block.                 *)
(***************************************************************************)
\* Classify that rebranches on equal total difficulty too.
ClassifyOnEqual(chain_info, st) ==
    IF chain_info.head.header.prev_hash = st.head_hash THEN "extend"
    ELSE IF chain_info.total_difficulty >= st.main_chain.total_difficulty THEN "rebranch"
    ELSE "fork"

\* Classify that never rebranches.
ClassifyNoRebranch(chain_info, st) ==
    IF chain_info.head.header.prev_hash = st.head_hash THEN "extend" ELSE "fork"

\* Which way push takes a block that passed all checks.
Classify(chain_info, st) ==
    IF chain_info.head.header.prev_hash = st.head_hash THEN "extend"
    ELSE IF chain_info.total_difficulty > st.main_chain.total_difficulty THEN "rebranch"
    ELSE "fork"

\* PushCheck with the orphan check before the known check.
PushCheckOrphanFirst(db, st, block) ==
    LET hash == BlockHash(block)
        prev_info_opt == get_chain_info(db, block.header.prev_hash, FALSE)
        prev_info == CHOOSE x \in prev_info_opt : TRUE
        next_target == get_next_target(db, st.main_chain, {block.header.prev_hash})
    IN  IF prev_info_opt = {} THEN "Orphan"
        ELSE IF get_chain_info(db, hash, FALSE) # {} THEN "Known"
        ELSE IF ~is_immediate_successor_of(block.header, prev_info.head.header)
        THEN "Invalid(InvalidSuccessor)"
        ELSE IF next_target.panic THEN "panic"
        ELSE IF block.header.n_bits # TargetToCompact(next_target.target)
        THEN "Invalid(DifficultyMismatch)"
        ELSE Classify(ChainInfoNext(prev_info, block), st)

\* The checks push makes under push_lock: the PushResult it returns at once,
\* "panic", or the path it takes.
PushCheck(db, st, block) ==
    LET hash == BlockHash(block)
        prev_info_opt == get_chain_info(db, block.header.prev_hash, FALSE)
        prev_info == CHOOSE x \in prev_info_opt : TRUE
        next_target == get_next_target(db, st.main_chain, {block.header.prev_hash})
    IN  IF get_chain_info(db, hash, FALSE) # {} THEN "Known"
        ELSE IF prev_info_opt = {} THEN "Orphan"
        ELSE IF ~is_immediate_successor_of(block.header, prev_info.head.header)
        THEN "Invalid(InvalidSuccessor)"
        ELSE IF next_target.panic THEN "panic"
        ELSE IF block.header.n_bits # TargetToCompact(next_target.target)
        THEN "Invalid(DifficultyMismatch)"
        ELSE Classify(ChainInfoNext(prev_info, block), st)

(***************************************************************************)
(* State.                                                                  *)
(***************************************************************************)
EmptyDb == [chain_db |-> <<>>, block_db |-> <<>>, height_idx |-> <<>>,
            head |-> ZeroHash, accounts |-> 0]

\* Accounts::init
accounts_init(db) == [db EXCEPT !.accounts = InitBalance]

NoBlock == MkBlock(ZeroHash, 0, 0, 0, 0, {})
FreeLock == [writer |-> NoThread, readers |-> {}]
NoRet == [op |-> "none"]
\* No AccountsProof has been built: an empty, unverified list of nodes.
NoProof == [nodes |-> <<>>, verified |-> FALSE]
\* No ConnectionPool has been built.
NoPool == [connections |-> [inner |-> <<>>, free_indices |-> <<>>]]

\* Blockchain::init on an empty store.
Init ==
    /\ kv = set_head(put_chain_info(accounts_init(EmptyDb), GenesisHash,
                                    ChainInfoInitial(GenesisBlock), TRUE), GenesisHash)
    /\ txn = {}
    /\ state = [transaction_cache |-> <<>>,
                main_chain |-> ChainInfoInitial(GenesisBlock),
                head_hash |-> GenesisHash,
                chain_proof |-> {}]
    /\ push_lock = NoThread
    /\ state_lock = FreeLock
    /\ pc = [t \in Threads |-> "idle"]
    /\ blk = [t \in Threads |-> NoBlock]
    /\ result = [t \in Threads |-> "none"]
    /\ event = [t \in Threads |-> <<>>]
    /\ loc = {}
    /\ pre = [t \in Threads |-> {}]
    /\ proof = NoProof
    /\ pool = NoPool
    /\ clock = 0
    /\ ret = [t \in Threads |-> NoRet]

Local == CHOOSE l \in loc : TRUE
WriteTxn == CHOOSE w \in txn : TRUE

\* The blocks a caller may hand to push: any header over the small field
\* domains, on top of any stored block, of the zero hash or of an unknown hash.
BlocksOnTop(prev_hash, prev_height) ==
    {MkBlock(prev_hash, h, ts, nb, acc, txs) :
        h \in {prev_height + 1, prev_height + 2}, ts \in 0..MaxTime, nb \in CompactValues,
        acc \in 0..InitBalance, txs \in SUBSET Txs}

Candidates ==
    UNION ({BlocksOnTop(h, kv.chain_db[h].head.header.height) : h \in DOMAIN kv.chain_db}
           \cup {BlocksOnTop(ZeroHash, 0), BlocksOnTop(UnknownHash, 0)})

\* The blocks that pass the successor check on top of a stored block and carry
\* the n_bits get_next_target asks for (the easiest target where it gives
\* none); their accounts_hash and transactions are free.
ValidOnTop(prev_hash) ==
    LET prev_info == kv.chain_db[prev_hash]
        next_target == get_next_target(kv, state.main_chain, {prev_hash})
        n_bits == TargetToCompact(IF next_target.panic THEN BLOCK_TARGET_MAX
                                  ELSE next_target.target)
    IN  {MkBlock(prev_hash, prev_info.head.header.height + 1, ts, n_bits, acc, txs) :
            ts \in prev_info.head.header.timestamp..MaxTime,
            acc \in 0..InitBalance, txs \in SUBSET Txs}

ValidCandidates == UNION {ValidOnTop(h) : h \in DOMAIN kv.chain_db}

\* Those of them that carry no transaction.
EmptyCandidates == {block \in ValidCandidates : BodyTxs(block) = {}}

\* The store holds fewer than max blocks besides the genesis block.
RoomInStore(max) == Cardinality(DOMAIN kv.chain_db) <= max

(***************************************************************************)
(* Blockchain::push, step by step.                                         *)
(***************************************************************************)
Return(t, res) ==
    /\ pc' = [pc EXCEPT ![t] = "returned"]
    /\ result' = [result EXCEPT ![t] = res]

\* A thread calls push(block).
Begin(t, block) ==
    /\ pc[t] = "idle"
    /\ pc' = [pc EXCEPT ![t] = "verify"]
    /\ blk' = [blk EXCEPT ![t] = block]
    /\ result' = [result EXCEPT ![t] = "none"]
    /\ event' = [event EXCEPT ![t] = <<>>]
    /\ UNCHANGED <<kv, txn, state, push_lock, state_lock, loc, pre, ret, proof, pool, clock>>

\* block.verify(now, network_id, genesis_hash), before push_lock is taken.  Its
\* outcome depends on the network time and on the proof of work.
Verify(t) ==
    /\ pc[t] = "verify"
    /\ \E ok \in BOOLEAN :
          IF ok THEN /\ pc' = [pc EXCEPT ![t] = "lock"]
                     /\ UNCHANGED result
          ELSE Return(t, "Invalid(InvalidBlock)")
    /\ UNCHANGED <<kv, txn, state, push_lock, state_lock, blk, event, loc, pre, ret, proof, pool, clock>>

\* A push_lock that never blocks.
CanLockAlways == TRUE

\* let lock = self.push_lock.lock();
CanLock == push_lock = NoThread

Acquire(t) ==
    /\ pc[t] = "lock"
    /\ CanLock
    /\ push_lock' = t
    /\ pc' = [pc EXCEPT ![t] = "check"]
    /\ pre' = [pre EXCEPT ![t] = {[kv |-> kv, state |-> state]}]
    /\ UNCHANGED <<kv, txn, state, state_lock, blk, result, event, loc, ret, proof, pool, clock>>

\* Known / orphan / successor / difficulty checks and the classification.
Check(t) ==
    /\ pc[t] = "check"
    /\ LET outcome == PushCheck(kv, state, blk[t])
           prev_info == CHOOSE x \in get_chain_info(kv, blk[t].header.prev_hash, FALSE) : TRUE
       IN  IF outcome \in {"extend", "rebranch", "fork"}
           THEN /\ pc' = [pc EXCEPT ![t] = outcome]
                /\ loc' = {[chain_info |-> ChainInfoNext(prev_info, blk[t]),
                            prev_info |-> prev_info]}
                /\ UNCHANGED <<push_lock, result>>
           ELSE IF outcome = "panic"
           THEN /\ pc' = [pc EXCEPT ![t] = "panicked"]
                /\ push_lock' = NoThread
                /\ UNCHANGED <<loc, result>>
           ELSE /\ Return(t, outcome)
                /\ push_lock' = NoThread
                /\ UNCHANGED loc
    /\ UNCHANGED <<kv, txn, state, state_lock, blk, event, pre, ret, proof, pool, clock>>

\* A ForkStore that also moves the store's head pointer to the fork block.
ForkStoreAsHead(t) ==
    /\ pc[t] = "fork"
    /\ kv' = commit(kv, set_head(put_chain_info(kv, BlockHash(blk[t]), Local.chain_info, TRUE),
                                  BlockHash(blk[t])))
    /\ Return(t, "Forked")
    /\ push_lock' = NoThread
    /\ loc' = {}
    /\ UNCHANGED <<txn, state, state_lock, blk, event, pre, ret, proof, pool, clock>>

\* Creating/extending a fork: store the ChainInfo.
ForkStore(t) ==
    /\ pc[t] = "fork"
    /\ kv' = commit(kv, put_chain_info(kv, BlockHash(blk[t]), Local.chain_info, TRUE))
    /\ Return(t, "Forked")
    /\ push_lock' = NoThread
    /\ loc' = {}
    /\ UNCHANGED <<txn, state, state_lock, blk, event, pre, ret, proof, pool, clock>>

\* extend, up to the writes into the transaction.
ExtendCheck(t) ==
    /\ pc[t] = "extend"
    /\ LET prepared == ExtendPrepare(kv, state, Local.chain_info)
           block_hash == BlockHash(blk[t])
           chain_info == ExtendMark(Local.chain_info)
           prev_info == ExtendMarkPrev(Local.prev_info, block_hash)
       IN  IF prepared.outcome = "ok"
           THEN /\ txn' = {ExtendStore(prepared.write_txn, block_hash, chain_info, prev_info)}
                /\ loc' = {[chain_info |-> chain_info, prev_info |-> prev_info]}
                /\ pc' = [pc EXCEPT ![t] = "extend_write"]
                /\ UNCHANGED <<kv, push_lock, result>>
           ELSE /\ kv' = abort(kv, prepared.write_txn)
                /\ txn' = {}
                /\ loc' = {}
                /\ Return(t, IF prepared.outcome = "duplicate"
                             THEN "Invalid(DuplicateTransaction)"
                             ELSE "Invalid(AccountsError)")
                /\ push_lock' = NoThread
    /\ UNCHANGED <<state, state_lock, blk, event, pre, ret, proof, pool, clock>>

\* extend takes the write lock and updates the in-memory state.
ExtendWrite(t) ==
    /\ pc[t] = "extend_write"
    /\ state_lock = FreeLock
    /\ state_lock' = [state_lock EXCEPT !.writer = t]
    /\ state' = ExtendMemory(state, BlockHash(blk[t]), Local.chain_info)
    /\ pc' = [pc EXCEPT ![t] = "extend_commit"]
    /\ UNCHANGED <<kv, txn, push_lock, blk, result, event, loc, pre, ret, proof, pool, clock>>

\* txn.commit(), then the write lock is given up.
ExtendCommit(t) ==
    /\ pc[t] = "extend_commit"
    /\ kv' = commit(kv, WriteTxn)
    /\ txn' = {}
    /\ state_lock' = FreeLock
    /\ pc' = [pc EXCEPT ![t] = "extend_notify"]
    /\ UNCHANGED <<state, push_lock, blk, result, event, loc, pre, ret, proof, pool, clock>>

\* An ExtendNotify that delivers the event without the read lock.
ExtendNotifyUnlocked(t) ==
    /\ pc[t] = "extend_notify"
    /\ event' = [event EXCEPT ![t] = Append(@, ExtendedEvent(state))]
    /\ pc' = [pc EXCEPT ![t] = "extend_return"]
    /\ UNCHANGED <<kv, txn, state, push_lock, state_lock, blk, result, loc, pre, ret, proof, pool, clock>>

\* The Extended event is built and delivered under the read lock.
ExtendNotify(t) ==
    /\ pc[t] = "extend_notify"
    /\ state_lock.writer = NoThread
    /\ state_lock' = [state_lock EXCEPT !.readers = @ \cup {t}]
    /\ event' = [event EXCEPT ![t] = Append(@, ExtendedEvent(state))]
    /\ pc' = [pc EXCEPT ![t] = "extend_return"]
    /\ UNCHANGED <<kv, txn, state, push_lock, blk, result, loc, pre, ret, proof, pool, clock>>

ExtendReturn(t) ==
    /\ pc[t] = "extend_return"
    /\ state_lock' = [state_lock EXCEPT !.readers = @ \ {t}]
    /\ push_lock' = NoThread
    /\ loc' = {}
    /\ Return(t, "Extended")
    /\ UNCHANGED <<kv, txn, state, blk, event, pre, ret, proof, pool, clock>>

\* rebranch, up to the point where the fork "looks good".
RebranchCheck(t) ==
    /\ pc[t] = "rebranch"
    /\ LET prepared == RebranchPrepare(kv, state, BlockHash(blk[t]), Local.chain_info)
       IN  IF prepared.outcome = "ok"
           THEN /\ txn' = {prepared.write_txn}
                /\ loc' = {[chain_info |-> Local.chain_info, prev_info |-> Local.prev_info,
                            fork_chain |-> prepared.fork_chain,
                            revert_chain |-> prepared.revert_chain,
                            ancestor |-> prepared.ancestor,
                            cache_txn |-> prepared.cache_txn]}
                /\ pc' = [pc EXCEPT ![t] = "rebranch_write"]
                /\ UNCHANGED <<kv, push_lock, result>>
           ELSE IF prepared.outcome = "invalid"
           THEN /\ kv' = abort(kv, prepared.write_txn)
                /\ txn' = {}
                /\ loc' = {}
                /\ Return(t, "Invalid(InvalidFork)")
                /\ push_lock' = NoThread
           ELSE /\ txn' = {}
                /\ loc' = {}
                /\ pc' = [pc EXCEPT ![t] = "panicked"]
                /\ push_lock' = NoThread
                /\ UNCHANGED <<kv, result>>
    /\ UNCHANGED <<state, state_lock, blk, event, pre, ret, proof, pool, clock>>

\* rebranch takes the write lock, rewrites the chain flags and commits.
RebranchWrite(t) ==
    /\ pc[t] = "rebranch_write"
    /\ state_lock = FreeLock
    /\ state_lock' = [state_lock EXCEPT !.writer = t]
    /\ kv' = commit(kv, RebranchStore(WriteTxn, Local.revert_chain, Local.ancestor,
                                       Local.fork_chain))
    /\ txn' = {}
    /\ pc' = [pc EXCEPT ![t] = "rebranch_memory"]
    /\ UNCHANGED <<state, push_lock, blk, result, event, loc, pre, ret, proof, pool, clock>>

\* RebranchSwap that keeps the write lock.
RebranchSwapHolding(t) ==
    /\ pc[t] = "rebranch_memory"
    /\ state' = RebranchMemory(state, Local.cache_txn, Local.fork_chain)
    /\ pc' = [pc EXCEPT ![t] = "rebranch_notify"]
    /\ UNCHANGED <<kv, txn, push_lock, state_lock, blk, result, event, loc, pre, ret, proof, pool, clock>>

\* rebranch swaps in the new cache, main_chain and head_hash.
RebranchSwap(t) ==
    /\ pc[t] = "rebranch_memory"
    /\ state' = RebranchMemory(state, Local.cache_txn, Local.fork_chain)
    /\ state_lock' = FreeLock
    /\ pc' = [pc EXCEPT ![t] = "rebranch_notify"]
    /\ UNCHANGED <<kv, txn, push_lock, blk, result, event, loc, pre, ret, proof, pool, clock>>

\* The Rebranched event is delivered without any lock on the state.
RebranchNotify(t) ==
    /\ pc[t] = "rebranch_notify"
    /\ event' = [event EXCEPT ![t] =
                    Append(@, RebranchedEvent(Local.revert_chain, Local.fork_chain))]
    /\ pc' = [pc EXCEPT ![t] = "rebranch_return"]
    /\ UNCHANGED <<kv, txn, state, push_lock, state_lock, blk, result, loc, pre, ret, proof, pool, clock>>

RebranchReturn(t) ==
    /\ pc[t] = "rebranch_return"
    /\ push_lock' = NoThread
    /\ loc' = {}
    /\ Return(t, "Rebranched")
    /\ UNCHANGED <<kv, txn, state, state_lock, blk, event, pre, ret, proof, pool, clock>>

\* The caller has looked at the PushResult; the thread is free for another push.
Finish(t) ==
    /\ pc[t] = "returned"
    /\ pc' = [pc EXCEPT ![t] = "idle"]
    /\ blk' = [blk EXCEPT ![t] = NoBlock]
    /\ result' = [result EXCEPT ![t] = "none"]
    /\ event' = [event EXCEPT ![t] = <<>>]
    /\ pre' = [pre EXCEPT ![t] = {}]
    /\ UNCHANGED <<kv, txn, state, push_lock, state_lock, loc, ret, proof, pool, clock>>

PushStep(t) ==
    \/ Verify(t) \/ Acquire(t) \/ Check(t) \/ ForkStore(t)
    \/ ExtendCheck(t) \/ ExtendWrite(t) \/ ExtendCommit(t) \/ ExtendNotify(t)
    \/ ExtendReturn(t)
    \/ RebranchCheck(t) \/ RebranchWrite(t) \/ RebranchSwap(t) \/ RebranchNotify(t)
    \/ RebranchReturn(t) \/ Finish(t)

\* One caller pushing arbitrary blocks.
Next ==
    \/ RoomInStore(MaxBlocks) /\ \E block \in Candidates : Begin("t1", block)
    \/ PushStep("t1")

Spec == Init /\ [][Next]_vars

\* One caller pushing blocks that pass the header checks: longer chains.
NextChain ==
    \/ RoomInStore(MaxChainBlocks) /\ \E block \in ValidCandidates : Begin("t1", block)
    \/ PushStep("t1")

SpecChain == Init /\ [][NextChain]_vars

\* Several callers pushing concurrently.
NextConc ==
    \E t \in Threads :
        \/ RoomInStore(MaxBlocks) /\ \E block \in EmptyCandidates : Begin(t, block)
        \/ PushStep(t)

SpecConc == Init /\ [][NextConc]_vars

(***************************************************************************)
(* The NIPoPoW prover.  Below NIPOPOW_M blocks no superchain above depth 0 *)
(* is good, so the prefix is the depth-0 superchain: every block from the  *)
(* genesis block to the prefix head.                                       *)
(***************************************************************************)
\* get_super_chain at depth 0 with tail_height 1, before chain.reverse().
RECURSIVE SuperChainWalk(_, _, _)
SuperChainWalk(db, head, chain) ==
    IF head.header.height <= 1 THEN [ok |-> TRUE, chain |-> chain]
    ELSE LET info == get_chain_info(db, head.header.prev_hash, FALSE)
         IN  IF info = {} THEN [ok |-> FALSE, chain |-> chain]
             ELSE LET chain_info == CHOOSE x \in info : TRUE
                  IN  SuperChainWalk(db, chain_info.head, Append(chain, chain_info))

get_super_chain(db, head_info) ==
    LET walk == SuperChainWalk(db, head_info.head, <<head_info>>)
        last == walk.chain[Len(walk.chain)]
        chain == IF last.head.header.height > 1
                 THEN Append(walk.chain, ChainInfoInitial(WithoutBody(GenesisBlock)))
                 ELSE walk.chain
    IN  [ok |-> walk.ok, chain |-> Reverse(chain)]

\* get_header_chain, before headers.reverse().
RECURSIVE HeaderChainWalk(_, _, _, _, _)
HeaderChainWalk(db, length, prev_hash, height, headers) ==
    IF ~(Len(headers) < length /\ height > 1) THEN [ok |-> TRUE, headers |-> headers]
    ELSE LET block == get_block(db, prev_hash, FALSE)
         IN  IF block = {} THEN [ok |-> FALSE, headers |-> headers]
             ELSE LET b == CHOOSE x \in block : TRUE
                  IN  HeaderChainWalk(db, length, b.header.prev_hash, b.header.height,
                                      Append(headers, b.header))

get_header_chain(db, length, head) ==
    LET walk == HeaderChainWalk(db, length, head.header.prev_hash, head.header.height,
                                IF length > 0 THEN <<head.header>> ELSE <<>>)
    IN  [ok |-> walk.ok, headers |-> Reverse(walk.headers)]

\* Blockchain::prove: [ok, proof]; ok is FALSE when an expect fails.
prove(db, head) ==
    LET none == [ok |-> FALSE, proof |-> [prefix |-> <<>>, suffix |-> <<>>]]
        infos == get_chain_info_at(db, Max(SatSub(head.header.height, NIPOPOW_K), 1), FALSE)
    IN  IF infos = {} THEN none
        ELSE LET head_info == CHOOSE x \in infos : TRUE
                 super_chain == get_super_chain(db, head_info)
                 suffix == get_header_chain(db, head.header.height
                                                  - head_info.head.header.height, head)
             IN  IF ~super_chain.ok \/ ~suffix.ok THEN none
                 ELSE [ok |-> TRUE,
                       proof |-> [prefix |-> [i \in 1..Len(super_chain.chain) |->
                                                 super_chain.chain[i].head],
                                  suffix |-> suffix.headers]]

\* Blockchain::get_chain_proof, all of it under the state write lock.  head is
\* (history) the head at the time of the call.
GetChainProof(t) ==
    /\ pc[t] = "idle"
    /\ state_lock = FreeLock
    /\ LET proved == prove(kv, state.main_chain.head)
       IN  IF state.chain_proof # {}
           THEN /\ ret' = [ret EXCEPT ![t] = [op |-> "get_chain_proof",
                                               proof |-> CHOOSE p \in state.chain_proof : TRUE,
                                               head |-> state.head_hash]]
                /\ UNCHANGED <<state, pc>>
           ELSE IF proved.ok
           THEN /\ state' = [state EXCEPT !.chain_proof = {proved.proof}]
                /\ ret' = [ret EXCEPT ![t] = [op |-> "get_chain_proof",
                                               proof |-> proved.proof,
                                               head |-> state.head_hash]]
                /\ UNCHANGED pc
           ELSE /\ pc' = [pc EXCEPT ![t] = "panicked"]
                /\ UNCHANGED <<state, ret>>
    /\ UNCHANGED <<kv, txn, push_lock, state_lock, blk, result, event, loc, pre, proof, pool, clock>>

Pushers == {"t1"}
Readers == {"t2"}

\* One thread pushes valid blocks while another reads.
NextRead ==
    \/ \E t \in Pushers :
          \/ RoomInStore(MaxChainBlocks) /\ \E block \in EmptyCandidates : Begin(t, block)
          \/ PushStep(t)
    \/ \E t \in Readers : GetChainProof(t)

SpecRead == Init /\ [][NextRead]_vars

(***************************************************************************)
(* Blockchain::get_block_locators.                                         *)
(***************************************************************************)
\* The first loop: up to k steps back along prev_hash.
RECURSIVE LocatorsTop(_, _, _, _)
LocatorsTop(db, hash, locators, k) ==
    IF k = 0 THEN locators
    ELSE LET block == get_block(db, hash, FALSE)
         IN  IF block = {} THEN locators
             ELSE LET prev_hash == (CHOOSE b \in block : TRUE).header.prev_hash
                  IN  LocatorsTop(db, prev_hash, Append(locators, prev_hash), k - 1)

\* The second loop: back off exponentially over the height index.
RECURSIVE LocatorsBackOff(_, _, _, _, _)
LocatorsBackOff(db, height, step, locators, max_count) ==
    LET opt_block == get_chain_info_at(db, height, FALSE)
    IN  IF opt_block = {} THEN locators
        ELSE LET block == (CHOOSE x \in opt_block : TRUE).head
                 pushed == Append(locators, BlockHash(block))
             IN  IF Len(pushed) >= max_count THEN pushed
                 ELSE IF height - step * 2 <= 0 THEN pushed
                 ELSE LocatorsBackOff(db, height - step * 2, step * 2, pushed, max_count)

\* get_block_locators without the final push of the genesis hash.
get_block_locators_as_walked(db, head_hash, height1, height2, max_count) ==
    LocatorsBackOff(db, SatSub(height2, TopLocators + 2), 2,
                    LocatorsTop(db, head_hash, <<head_hash>>, Min(TopLocators, height1)),
                    max_count)

\* The whole function, from the head_hash and the two heights it reads.
get_block_locators(db, head_hash, height1, height2, max_count) ==
    LET top == LocatorsTop(db, head_hash, <<head_hash>>, Min(TopLocators, height1))
        backed == LocatorsBackOff(db, SatSub(height2, TopLocators + 2), 2, top, max_count)
    IN  IF backed = <<>> \/ backed[Len(backed)] # GenesisHash
        THEN Append(IF Len(backed) >= max_count
                    THEN SubSeq(backed, 1, Len(backed) - 1) ELSE backed,
                    GenesisHash)
        ELSE backed

GetBlockLocators(t, max_count) ==
    /\ pc[t] = "idle"
    /\ state_lock.writer = NoThread
    /\ ret' = [ret EXCEPT ![t] =
                  [op |-> "get_block_locators", max_count |-> max_count,
                   locators |-> get_block_locators(kv, state.head_hash,
                                    state.main_chain.head.header.height,
                                    state.main_chain.head.header.height, max_count)]]
    /\ UNCHANGED <<kv, txn, state, push_lock, state_lock, pc, blk, result, event, loc, pre, proof, pool, clock>>

\* The store and the state after pushing height - 1 blocks, each mined
\* BLOCK_TIME after its predecessor, on top of the genesis block.
RECURSIVE LinearChain(_)
LinearChain(height) ==
    IF height = 1
    THEN [ok |-> TRUE,
          kv |-> set_head(put_chain_info(accounts_init(EmptyDb), GenesisHash,
                                         ChainInfoInitial(GenesisBlock), TRUE), GenesisHash),
          state |-> [transaction_cache |-> <<>>,
                     main_chain |-> ChainInfoInitial(GenesisBlock),
                     head_hash |-> GenesisHash,
                     chain_proof |-> {}]]
    ELSE LET below == LinearChain(height - 1)
             prev_info == below.state.main_chain
             block == MkBlock(below.state.head_hash, height, (height - 1) * BLOCK_TIME,
                              TargetToCompact(BLOCK_TARGET_MAX), InitBalance, {})
             block_hash == BlockHash(block)
             chain_info == ExtendMark(ChainInfoNext(prev_info, block))
             prepared == ExtendPrepare(below.kv, below.state, chain_info)
         IN  [ok |-> /\ below.ok
                     /\ PushCheck(below.kv, below.state, block) = "extend"
                     /\ prepared.outcome = "ok",
              kv |-> commit(below.kv, ExtendStore(prepared.write_txn, block_hash, chain_info,
                                                  ExtendMarkPrev(prev_info, block_hash))),
              state |-> ExtendMemory(below.state, block_hash, chain_info)]

InitLocators ==
    \E height \in 1..MaxHeight :
        /\ LinearChain(height).ok
        /\ kv = LinearChain(height).kv
        /\ state = LinearChain(height).state
        /\ txn = {}
        /\ push_lock = NoThread
        /\ state_lock = FreeLock
        /\ pc = [t \in Threads |-> "idle"]
        /\ blk = [t \in Threads |-> NoBlock]
        /\ result = [t \in Threads |-> "none"]
        /\ event = [t \in Threads |-> <<>>]
        /\ loc = {}
        /\ pre = [t \in Threads |-> {}]
        /\ proof = NoProof
        /\ pool = NoPool
        /\ clock = 0
        /\ ret = [t \in Threads |-> NoRet]

NextLocators == \E t \in Readers : \E max_count \in 1..MaxCount : GetBlockLocators(t, max_count)

SpecLocators == InitLocators /\ [][NextLocators]_vars

(***************************************************************************)
(* get_block_locators while another thread pushes.  head_hash() and both   *)
(* height() calls take the state read lock for one read each; the reads of *)
(* the chain store in between take no lock.                                *)
(***************************************************************************)
MaxDeepBlocks == 15

\* The hashes of the main chain of a store.
MainChain(db) == {hash \in DOMAIN db.chain_db : db.chain_db[hash].on_main_chain}

\* What a caller can see of the chain while no writer holds the state lock.
Seen(db, st) == [head_hash |-> st.head_hash, main_chain |-> MainChain(db)]

\* let mut hash = self.head_hash();
LocatorsHead(t, max_count) ==
    /\ pc[t] = "idle"
    /\ state_lock.writer = NoThread
    /\ pc' = [pc EXCEPT ![t] = "locators_height"]
    /\ ret' = [ret EXCEPT ![t] = [op |-> "get_block_locators_head", max_count |-> max_count,
                                   hash |-> state.head_hash, before |-> Seen(kv, state)]]
    /\ UNCHANGED <<kv, txn, state, push_lock, state_lock, blk, result, event, loc, pre, proof, pool, clock>>

\* cmp::min(10, self.height())
LocatorsHeight(t) ==
    /\ pc[t] = "locators_height"
    /\ state_lock.writer = NoThread
    /\ pc' = [pc EXCEPT ![t] = "locators_top"]
    /\ ret' = [ret EXCEPT ![t] =
                  [op |-> "get_block_locators_height", max_count |-> ret[t].max_count,
                   hash |-> ret[t].hash, before |-> ret[t].before,
                   count |-> Min(TopLocators, state.main_chain.head.header.height)]]
    /\ UNCHANGED <<kv, txn, state, push_lock, state_lock, blk, result, event, loc, pre, proof, pool, clock>>

\* The first loop, reading the store.
LocatorsWalk(t) ==
    /\ pc[t] = "locators_top"
    /\ pc' = [pc EXCEPT ![t] = "locators_back_off"]
    /\ ret' = [ret EXCEPT ![t] =
                  [op |-> "get_block_locators_top", max_count |-> ret[t].max_count,
                   before |-> ret[t].before,
                   locators |-> LocatorsTop(kv, ret[t].hash, <<ret[t].hash>>, ret[t].count)]]
    /\ UNCHANGED <<kv, txn, state, push_lock, state_lock, blk, result, event, loc, pre, proof, pool, clock>>

\* let mut height = self.height().saturating_sub(10 + step);
LocatorsBackOffHeight(t) ==
    /\ pc[t] = "locators_back_off"
    /\ state_lock.writer = NoThread
    /\ pc' = [pc EXCEPT ![t] = "locators_index"]
    /\ ret' = [ret EXCEPT ![t] =
                  [op |-> "get_block_locators_back_off", max_count |-> ret[t].max_count,
                   before |-> ret[t].before, locators |-> ret[t].locators,
                   height |-> SatSub(state.main_chain.head.header.height, TopLocators + 2)]]
    /\ UNCHANGED <<kv, txn, state, push_lock, state_lock, blk, result, event, loc, pre, proof, pool, clock>>

\* The second loop, reading the height index, and the genesis hash at the end.
LocatorsReturn(t) ==
    /\ pc[t] = "locators_index"
    /\ pc' = [pc EXCEPT ![t] = "idle"]
    /\ LET max_count == ret[t].max_count
           backed == LocatorsBackOff(kv, ret[t].height, 2, ret[t].locators, max_count)
           locators == IF backed = <<>> \/ backed[Len(backed)] # GenesisHash
                       THEN Append(IF Len(backed) >= max_count
                                   THEN SubSeq(backed, 1, Len(backed) - 1) ELSE backed,
                                   GenesisHash)
                       ELSE backed
       IN  ret' = [ret EXCEPT ![t] =
                      [op |-> "get_block_locators", max_count |-> max_count,
                       locators |-> locators,
                       before |-> ret[t].before, after |-> Seen(kv, state)]]
    /\ UNCHANGED <<kv, txn, state, push_lock, state_lock, blk, result, event, loc, pre, proof, pool, clock>>

\* A block that is no main-chain block of LinearChain and was mined BLOCK_TIME
\* after its predecessor, or two BLOCK_TIMEs after the genesis block.
LateBlock(db, st, prev_hash) ==
    LET prev_info == db.chain_db[prev_hash]
        next_target == get_next_target(db, st.main_chain, {prev_hash})
        n_bits == TargetToCompact(IF next_target.panic THEN BLOCK_TARGET_MAX
                                  ELSE next_target.target)
    IN  MkBlock(prev_hash, prev_info.head.header.height + 1,
                prev_info.head.header.height * BLOCK_TIME + BLOCK_TIME, n_bits,
                InitBalance, {})

\* The late blocks a caller may push: on top of the genesis block and of every
\* late block that has no successor in the store yet.
LateCandidates ==
    {block \in {LateBlock(kv, state, prev_hash) :
                   prev_hash \in {h \in DOMAIN kv.chain_db :
                       \/ h = GenesisHash
                       \/ kv.chain_db[h].head.header.timestamp
                             = kv.chain_db[h].head.header.height * BLOCK_TIME}} :
        BlockHash(block) \notin DOMAIN kv.chain_db}

\* The main chain genesis -> M2 after two pushes.
InitDeep ==
    /\ LinearChain(2).ok
    /\ kv = LinearChain(2).kv
    /\ state = LinearChain(2).state
    /\ txn = {}
    /\ push_lock = NoThread
    /\ state_lock = FreeLock
    /\ pc = [t \in Threads |-> "idle"]
    /\ blk = [t \in Threads |-> NoBlock]
    /\ result = [t \in Threads |-> "none"]
    /\ event = [t \in Threads |-> <<>>]
    /\ loc = {}
    /\ pre = [t \in Threads |-> {}]
    /\ proof = NoProof
    /\ pool = NoPool
    /\ clock = 0
    /\ ret = [t \in Threads |-> NoRet]

NextDeep ==
    \/ \E t \in Pushers :
          \/ RoomInStore(MaxDeepBlocks - 1) /\ \E block \in LateCandidates : Begin(t, block)
          \/ PushStep(t)
    \/ \E t \in Readers :
          \/ \E max_count \in {MaxCount} : LocatorsHead(t, max_count)
          \/ LocatorsHeight(t)
          \/ LocatorsWalk(t)
          \/ LocatorsBackOffHeight(t)
          \/ LocatorsReturn(t)

SpecDeep == InitDeep /\ [][NextDeep]_vars

(***************************************************************************)
(* Blockchain::new on a store that outlives the Blockchain: init on an     *)
(* empty store, load on a store that has a head.                           *)
(***************************************************************************)
\* No Blockchain has been built on the store.
NoState == [dropped |-> TRUE]
Running == state # NoState

\* Blockchain::init: [panic, kv, state].
init(db) ==
    [panic |-> FALSE,
     kv |-> commit(db, set_head(put_chain_info(accounts_init(db), GenesisHash,
                                               ChainInfoInitial(GenesisBlock), TRUE),
                                GenesisHash)),
     state |-> [transaction_cache |-> <<>>,
                main_chain |-> ChainInfoInitial(GenesisBlock),
                head_hash |-> GenesisHash,
                chain_proof |-> {}]]

\* Blockchain::load: [panic, kv, state]; the asserts and the expect abort.
load(db, head_hash) ==
    LET genesis_info == get_chain_info(db, GenesisHash, FALSE)
        loaded == get_chain_info(db, head_hash, TRUE)
        main_chain == CHOOSE info \in loaded : TRUE
        blocks == get_blocks_backward(db, head_hash, TRANSACTION_VALIDITY_WINDOW - 1, TRUE)
        transaction_cache == cache_push_block(PushAll(<<>>, Reverse(blocks), 1),
                                              main_chain.head)
        failed == [panic |-> TRUE, kv |-> db, state |-> NoState]
    IN  IF genesis_info = {} \/ \E info \in genesis_info : ~info.on_main_chain THEN failed
        ELSE IF loaded = {} THEN failed
        ELSE IF main_chain.head.header.accounts_hash # accounts_hash(db) THEN failed
        ELSE IF cache_missing_blocks(transaction_cache)
                  # SatSub(TRANSACTION_VALIDITY_WINDOW, main_chain.head.header.height)
        THEN failed
        ELSE [panic |-> FALSE, kv |-> db,
              state |-> [transaction_cache |-> transaction_cache,
                         main_chain |-> main_chain,
                         head_hash |-> head_hash,
                         chain_proof |-> {}]]

\* Blockchain::new: chain_store.get_head decides between load and init.
New(t) ==
    /\ ~Running
    /\ pc[t] = "idle"
    /\ LET built == IF kv.head = ZeroHash THEN init(kv) ELSE load(kv, kv.head)
       IN  /\ kv' = built.kv
           /\ state' = built.state
           /\ ret' = [ret EXCEPT ![t] = [op |-> "new", panic |-> built.panic,
                                          loaded |-> kv.head # ZeroHash]]
    /\ UNCHANGED <<txn, push_lock, state_lock, pc, blk, result, event, loc, pre, proof, pool, clock>>

\* The Blockchain is dropped while no call is running; the store stays.
Shutdown ==
    /\ Running
    /\ \A t \in Threads : pc[t] = "idle"
    /\ state' = NoState
    /\ ret' = [t \in Threads |-> NoRet]
    /\ UNCHANGED <<kv, txn, push_lock, state_lock, pc, blk, result, event, loc, pre, proof, pool, clock>>

InitRestart ==
    /\ kv = EmptyDb
    /\ txn = {}
    /\ state = NoState
    /\ push_lock = NoThread
    /\ state_lock = FreeLock
    /\ pc = [t \in Threads |-> "idle"]
    /\ blk = [t \in Threads |-> NoBlock]
    /\ result = [t \in Threads |-> "none"]
    /\ event = [t \in Threads |-> <<>>]
    /\ loc = {}
    /\ pre = [t \in Threads |-> {}]
    /\ proof = NoProof
    /\ pool = NoPool
    /\ clock = 0
    /\ ret = [t \in Threads |-> NoRet]

NextRestart ==
    \/ \E t \in Pushers : New(t)
    \/ Shutdown
    \/ \E t \in Pushers :
          \/ /\ Running
             /\ RoomInStore(MaxBlocks)
             /\ \E block \in ValidCandidates : Begin(t, block)
          \/ PushStep(t)

SpecRestart == InitRestart /\ [][NextRestart]_vars

(***************************************************************************)
(* The arithmetic of get_next_target on its own, applied to the head and   *)
(* tail of any window.                                                     *)
(***************************************************************************)
\* What the arithmetic reads of a ChainInfo.
WindowInfo(height, timestamp, total_difficulty) ==
    [head |-> [header |-> [height |-> height, timestamp |-> timestamp]],
     total_difficulty |-> total_difficulty]

\* The total difficulties n blocks can add up to.
RECURSIVE WindowDifficulties(_)
WindowDifficulties(n) ==
    IF n = 0 THEN {0}
    ELSE {sum + TargetToDifficulty(target) :
             sum \in WindowDifficulties(n - 1), target \in 1..BLOCK_TARGET_MAX}

\* Heads up to two blocks above the window with the tail the assertion asks
\* for, any elapsed time and any difficulty of the blocks in between.
WindowInputs ==
    UNION {LET tail_height == Max(1, SatSub(height, DIFFICULTY_BLOCK_WINDOW))
           IN  {[head_info |-> WindowInfo(height, timestamp + elapsed,
                                          tail_height * DifficultyUnit + difficulty),
                 tail_info |-> WindowInfo(tail_height, timestamp,
                                          tail_height * DifficultyUnit)] :
                   timestamp \in 0..MaxStamp,
                   elapsed \in IF height = tail_height THEN {0} ELSE 0..MaxElapsed,
                   difficulty \in WindowDifficulties(height - tail_height)}
           : height \in 1..(DIFFICULTY_BLOCK_WINDOW + 2)}

InitRetarget ==
    /\ kv = LinearChain(1).kv
    /\ state = LinearChain(1).state
    /\ txn = {}
    /\ push_lock = NoThread
    /\ state_lock = FreeLock
    /\ pc = [t \in Threads |-> "idle"]
    /\ blk = [t \in Threads |-> NoBlock]
    /\ result = [t \in Threads |-> "none"]
    /\ event = [t \in Threads |-> <<>>]
    /\ loc = {}
    /\ pre = [t \in Threads |-> {}]
    /\ proof = NoProof
    /\ pool = NoPool
    /\ clock = 0
    /\ \E input \in WindowInputs :
          ret = [t \in Threads |->
                    IF t \in Readers
                    THEN [op |-> "window", head_info |-> input.head_info,
                          tail_info |-> input.tail_info]
                    ELSE NoRet]

\* Lines 496-537 of get_next_target on the window at hand.
Retarget(t) ==
    /\ ret[t].op = "window"
    /\ ret' = [ret EXCEPT ![t] =
                  [op |-> "get_next_target",
                   head_info |-> ret[t].head_info,
                   tail_info |-> ret[t].tail_info,
                   actual_time |-> ActualTime(ret[t].head_info, ret[t].tail_info),
                   delta_total_difficulty |->
                       DeltaTotalDifficulty(ret[t].head_info, ret[t].tail_info),
                   adjustment |-> Adjustment(ActualTime(ret[t].head_info, ret[t].tail_info)),
                   next_target |-> NextTargetOf(ret[t].head_info, ret[t].tail_info)]]
    /\ UNCHANGED <<kv, txn, state, push_lock, state_lock, pc, blk, result, event, loc, pre, proof, pool, clock>>

NextRetarget == \E t \in Readers : Retarget(t)

SpecRetarget == InitRetarget /\ [][NextRetarget]_vars

(***************************************************************************)
(* AccountsProof: the nodes of an accounts tree listed bottom-up, and the  *)
(* verification of the list against the hashes its branches claim.         *)
(***************************************************************************)
NibbleCount == 2
AddressBytes == 1
MaxProofLen == 4

\* AddressNibbles: a sequence of nibbles.
Nibbles == 0..(NibbleCount - 1)
is_prefix_of(prefix, other) ==
    Len(prefix) <= Len(other) /\ SubSeq(other, 1, Len(prefix)) = prefix

\* AccountsTreeNode: a terminal holds an account, a branch holds per nibble an
\* optional child entry [suffix, hash].
TerminalNode(prefix, account) == [kind |-> "terminal", prefix |-> prefix, account |-> account]
BranchNode(prefix, children) == [kind |-> "branch", prefix |-> prefix, children |-> children]
is_branch(node) == node.kind = "branch"
NodeHash(node) == [digest |-> node]

\* The entry of a branch in the slot that leads to prefix: none when the slot
\* is empty, when prefix does not reach below the branch, or on a terminal.
get_child(node, prefix) ==
    IF /\ is_branch(node)
       /\ is_prefix_of(node.prefix, prefix)
       /\ Len(prefix) > Len(node.prefix)
    THEN node.children[prefix[Len(node.prefix) + 1]]
    ELSE {}
get_child_hash(node, prefix) == {child.hash : child \in get_child(node, prefix)}
get_child_prefix(node, prefix) == {node.prefix \o child.suffix : child \in get_child(node, prefix)}

\* AccountsProof::new.
NewProof(nodes) == [nodes |-> nodes, verified |-> FALSE]

\* The comparison of a covered child with the entry of the branch.
ChildMismatchHashOnly(node, child) ==
    get_child_hash(node, child.prefix) # {NodeHash(child)}
ChildMismatch(node, child) ==
    \/ get_child_hash(node, child.prefix) # {NodeHash(child)}
    \/ get_child_prefix(node, child.prefix) # {child.prefix}

\* The while-let loop of verify for the branch node: pops the children the
\* branch covers.  outcome is "next" when the loop ends, "false" on the early
\* return, "panic" when an unwrap meets None.
RECURSIVE PopCovered(_, _)
PopCovered(node, children) ==
    IF children = <<>>
    THEN [outcome |-> "next", children |-> children]
    ELSE LET child == children[Len(children)]
             popped == SubSeq(children, 1, Len(children) - 1)
         IN  IF is_prefix_of(node.prefix, child.prefix)
             THEN IF get_child_hash(node, child.prefix) = {}
                  THEN [outcome |-> "panic", children |-> popped]
                  ELSE IF ChildMismatch(node, child)
                  THEN [outcome |-> "false", children |-> popped]
                  ELSE PopCovered(node, popped)
             ELSE [outcome |-> "next", children |-> children]

\* The for loop of verify from node i on.
RECURSIVE VerifyWalk(_, _, _)
VerifyWalk(nodes, i, children) ==
    IF i > Len(nodes)
    THEN [outcome |-> "done", children |-> children]
    ELSE LET popped == IF is_branch(nodes[i])
                       THEN PopCovered(nodes[i], children)
                       ELSE [outcome |-> "next", children |-> children]
         IN  IF popped.outcome = "next"
             THEN VerifyWalk(nodes, i + 1, Append(popped.children, nodes[i]))
             ELSE popped

\* AccountsProof::verify: [panic, value, proof].
verify(p) ==
    LET walk == VerifyWalk(p.nodes, 1, <<>>)
        valid == /\ Len(walk.children) = 1
                 /\ walk.children[1].prefix = <<>>
                 /\ is_branch(walk.children[1])
    IN  CASE walk.outcome = "panic" -> [panic |-> TRUE, value |-> FALSE, proof |-> p]
          [] walk.outcome = "false" -> [panic |-> FALSE, value |-> FALSE, proof |-> p]
          [] OTHER -> [panic |-> FALSE, value |-> valid,
                       proof |-> [p EXCEPT !.verified = valid]]

\* AccountsProof::root_hash: the hash it returns; none when the list is empty,
\* where indexing the last node aborts.
root_hash(p) ==
    IF p.nodes = <<>> THEN {} ELSE {NodeHash(p.nodes[Len(p.nodes)])}

\* AddressNibbles::from(address): two nibbles per byte, the high one first.
BytesToNibbles(bytes) ==
    [i \in 1..(2 * Len(bytes)) |->
        IF i % 2 = 1 THEN bytes[(i + 1) \div 2] \div NibbleCount
                     ELSE bytes[i \div 2] % NibbleCount]

\* AccountsProof::get_account without its assertion.
get_account_unverified(p, address) ==
    LET found == {i \in 1..Len(p.nodes) :
                     /\ ~is_branch(p.nodes[i])
                     /\ p.nodes[i].prefix = BytesToNibbles(address)}
    IN  [panic |-> FALSE,
         account |-> IF found = {} THEN {}
                     ELSE {p.nodes[CHOOSE i \in found : \A j \in found : i <= j].account}]
\* AccountsProof::get_account: [panic, account]; the account of the first
\* terminal at the address, none when no terminal is listed for it.
get_account(p, address) ==
    IF ~p.verified
    THEN [panic |-> TRUE, account |-> {}]
    ELSE get_account_unverified(p, address)

\* (history) What a call that aborted leaves in ret.
Aborted(call) == [op |-> "abort", call |-> call]

VerifyProof(t) ==
    /\ pc[t] = "idle"
    /\ LET verified == verify(proof)
       IN  IF verified.panic
           THEN /\ pc' = [pc EXCEPT ![t] = "panicked"]
                /\ ret' = [ret EXCEPT ![t] = Aborted("verify")]
                /\ UNCHANGED proof
           ELSE /\ proof' = verified.proof
                /\ ret' = [ret EXCEPT ![t] = [op |-> "verify", value |-> verified.value]]
                /\ UNCHANGED pc
    /\ UNCHANGED <<kv, txn, state, push_lock, state_lock, blk, result, event, loc, pre,
                   pool, clock>>

RootHash(t) ==
    /\ pc[t] = "idle"
    /\ IF root_hash(proof) = {}
       THEN /\ pc' = [pc EXCEPT ![t] = "panicked"]
            /\ ret' = [ret EXCEPT ![t] = Aborted("root_hash")]
       ELSE /\ ret' = [ret EXCEPT ![t] = [op |-> "root_hash",
                                           hash |-> CHOOSE h \in root_hash(proof) : TRUE]]
            /\ UNCHANGED pc
    /\ UNCHANGED <<kv, txn, state, push_lock, state_lock, blk, result, event, loc, pre, proof, pool, clock>>

GetAccount(t, address) ==
    /\ pc[t] = "idle"
    /\ IF get_account(proof, address).panic
       THEN /\ pc' = [pc EXCEPT ![t] = "panicked"]
            /\ ret' = [ret EXCEPT ![t] = Aborted("get_account")]
       ELSE /\ ret' = [ret EXCEPT ![t] = [op |-> "get_account", address |-> address,
                                           account |-> get_account(proof, address).account]]
            /\ UNCHANGED pc
    /\ UNCHANGED <<kv, txn, state, push_lock, state_lock, blk, result, event, loc, pre, proof, pool, clock>>

\* The entry a branch at prefix holds for node, and the branch over a set of
\* nodes, one per slot.
ChildEntry(prefix, node) ==
    [suffix |-> SubSeq(node.prefix, Len(prefix) + 1, Len(node.prefix)),
     hash |-> NodeHash(node)]
BranchOver(prefix, nodes) ==
    BranchNode(prefix, [i \in Nibbles |->
        {ChildEntry(prefix, node) : node \in {n \in nodes : n.prefix[Len(prefix) + 1] = i}}])

\* The tree R -> {B0 -> {T00, T01}, T10} and nodes that differ from it: another
\* account at 00, B0 without its entry for T01 and a root over it, and R with
\* the suffix of its entry for T10 changed.
T00 == TerminalNode(<<0, 0>>, 1)
T01 == TerminalNode(<<0, 1>>, 1)
T10 == TerminalNode(<<1, 0>>, 1)
T00Other == TerminalNode(<<0, 0>>, 2)
B0 == BranchOver(<<0>>, {T00, T01})
B0Hole == BranchOver(<<0>>, {T00})
R == BranchOver(<<>>, {B0, T10})
RHole == BranchOver(<<>>, {B0Hole, T10})
RSuffix == BranchNode(<<>>, [R.children EXCEPT ![1] =
               {[suffix |-> <<1, 1>>, hash |-> NodeHash(T10)]}])
ProofNodes == {T00, T01, T10, T00Other, B0, B0Hole, R, RHole, RSuffix}

ProofLists == UNION {[1..n -> ProofNodes] : n \in 0..MaxProofLen}

InitProof ==
    /\ kv = set_head(put_chain_info(accounts_init(EmptyDb), GenesisHash,
                                    ChainInfoInitial(GenesisBlock), TRUE), GenesisHash)
    /\ state = [transaction_cache |-> <<>>,
                main_chain |-> ChainInfoInitial(GenesisBlock),
                head_hash |-> GenesisHash,
                chain_proof |-> {}]
    /\ txn = {}
    /\ push_lock = NoThread
    /\ state_lock = FreeLock
    /\ pc = [t \in Threads |-> "idle"]
    /\ blk = [t \in Threads |-> NoBlock]
    /\ result = [t \in Threads |-> "none"]
    /\ event = [t \in Threads |-> <<>>]
    /\ loc = {}
    /\ pre = [t \in Threads |-> {}]
    /\ ret = [t \in Threads |-> NoRet]
    /\ \E nodes \in ProofLists : proof = NewProof(nodes)
    /\ pool = NoPool
    /\ clock = 0

\* Every address: AddressBytes bytes of two nibbles each.
Addresses == [1..AddressBytes -> 0..(NibbleCount * NibbleCount - 1)]

NextProof ==
    \E t \in Readers :
        \/ VerifyProof(t)
        \/ RootHash(t)
        \/ \E address \in Addresses : GetAccount(t, address)

SpecProof == InitProof /\ [][NextProof]_vars

(***************************************************************************)
(* The user-friendly form of an Address (keys/src/address.rs).  A string   *)
(* is the sequence of the codes of its characters.                         *)
(***************************************************************************)
AddressSize == 20
FriendlyLength == 36

CCODE == <<78, 81>>
NIMIQ_ALPHABET ==
    <<48, 49, 50, 51, 52, 53, 54, 55, 56, 57, 65, 66, 67, 68, 69, 70,
      71, 72, 74, 75, 76, 77, 78, 80, 81, 82, 83, 84, 85, 86, 88, 89>>
Spaces == {32}

\* str::replace(s, " ", "").
WithoutSpaces(s) == SelectSeq(s, LAMBDA code : code \notin Spaces)

\* char::to_uppercase on the characters that occur.
ToUpper(code) == IF code >= 97 /\ code <= 122 THEN code - 32 ELSE code

\* u32::to_string and str::parse::<u32> on decimal digits.
RECURSIVE ToDecimal(_)
ToDecimal(n) ==
    IF n < 10 THEN <<48 + n>> ELSE Append(ToDecimal(n \div 10), 48 + (n % 10))
RECURSIVE ParseDecimal(_)
ParseDecimal(s) ==
    IF s = <<>> THEN 0
    ELSE 10 * ParseDecimal(SubSeq(s, 1, Len(s) - 1)) + (s[Len(s)] - 48)

\* Bit k (from 0, most significant first) of a sequence of units of width bits.
BitOf(units, width, k) ==
    IF k < width * Len(units)
    THEN (units[(k \div width) + 1] \div (2 ^ (width - 1 - (k % width)))) % 2
    ELSE 0
\* The units of width bits from position k on.
UnitAt(units, from_width, to_width, k) ==
    LET value[j \in 0..to_width] ==
            IF j = 0 THEN 0
            ELSE 2 * value[j - 1] + BitOf(units, from_width, k + j - 1)
    IN  value[to_width]

\* Encoding::encode and Encoding::decode of the base 32 encoding over
\* NIMIQ_ALPHABET, without padding; decode is none on a foreign symbol.
Base32Encode(bytes) ==
    [i \in 1..((8 * Len(bytes) + 4) \div 5) |->
        NIMIQ_ALPHABET[UnitAt(bytes, 8, 5, 5 * (i - 1)) + 1]]
Base32Decode(symbols) ==
    LET index(code) == CHOOSE v \in 1..Len(NIMIQ_ALPHABET) : NIMIQ_ALPHABET[v] = code
        values == [i \in 1..Len(symbols) |-> index(symbols[i]) - 1]
    IN  IF \A i \in 1..Len(symbols) :
              \E v \in 1..Len(NIMIQ_ALPHABET) : NIMIQ_ALPHABET[v] = symbols[i]
        THEN {[m \in 1..((5 * Len(symbols)) \div 8) |-> UnitAt(values, 5, 8, 8 * (m - 1))]}
        ELSE {}

\* Address::iban_check: the digits of the string, letters as two digits, taken
\* modulo 97 in pieces of six digits.
IbanDigits(s) ==
    LET digits == [i \in 1..Len(s) |->
                      LET code == ToUpper(s[i])
                      IN  IF code >= 48 /\ code <= 57 THEN <<code>>
                                                      ELSE ToDecimal(code - 55)]
        places == {place \in (1..Len(s)) \X (1..3) : place[2] <= Len(digits[place[1]])}
        before == [i \in 1..Len(s) |-> Cardinality({place \in places : place[1] < i})]
    IN  [k \in 1..Cardinality(places) |->
            LET i == CHOOSE j \in 1..Len(s) : before[j] < k /\ k <= before[j] + Len(digits[j])
            IN  digits[i][k - before[i]]]
RECURSIVE IbanPieces(_, _, _)
IbanPieces(num, i, tmp) ==
    IF 6 * i >= Len(num) THEN tmp
    ELSE LET num_substr == SubSeq(num, 6 * i + 1, Min(6 * i + 6, Len(num)))
         IN  IbanPieces(num, i + 1, ToDecimal(ParseDecimal(tmp \o num_substr) % 97))
iban_check(s) == ParseDecimal(IbanPieces(IbanDigits(s), 0, <<>>))

\* The check digits of to_user_friendly_address, and the same without the
\* padding.
CheckDigitsUnpadded(base32) == ToDecimal(98 - iban_check(base32 \o CCODE \o <<48, 48>>))
CheckDigits(base32) ==
    LET check_string == <<48, 48>> \o ToDecimal(98 - iban_check(base32 \o CCODE \o <<48, 48>>))
    IN  SubSeq(check_string, Len(check_string) - 1, Len(check_string))

\* Address::to_user_friendly_address.
RECURSIVE Grouped(_, _)
Grouped(friendly_addr, i) ==
    IF i = 9 THEN <<>>
    ELSE SubSeq(friendly_addr, Min(4 * i + 1, Len(friendly_addr) + 1),
                               Min(4 * i + 4, Len(friendly_addr)))
            \o (IF i # 8 THEN <<32>> ELSE <<>>)
            \o Grouped(friendly_addr, i + 1)
to_user_friendly_address(address) ==
    LET base32 == Base32Encode(address)
    IN  Grouped(CCODE \o CheckDigits(base32) \o base32, 0)

\* Address::from_user_friendly_address: [panic, err, address].
from_user_friendly_address(friendly_addr) ==
    LET wospace == WithoutSpaces(friendly_addr)
        twisted_str == SubSeq(wospace, 5, Len(wospace)) \o SubSeq(wospace, 1, 4)
        b_vec == Base32Decode(SubSeq(wospace, 5, Len(wospace)))
        failed(err) == [panic |-> FALSE, err |-> err, address |-> {}]
        aborted == [panic |-> TRUE, err |-> "none", address |-> {}]
    IN  IF Len(wospace) < 2 THEN aborted
        ELSE IF <<ToUpper(wospace[1]), ToUpper(wospace[2])>> # CCODE
        THEN failed("WrongCountryCode")
        ELSE IF Len(wospace) # FriendlyLength THEN failed("WrongLength")
        ELSE IF iban_check(twisted_str) # 1 THEN failed("InvalidChecksum")
        ELSE IF b_vec = {} THEN aborted
        ELSE LET decoded == CHOOSE b \in b_vec : TRUE
             IN  IF Len(decoded) # AddressSize THEN aborted
                 ELSE [panic |-> FALSE, err |-> "none", address |-> {decoded}]

\* The addresses formatted and parsed: one byte set apart from the others,
\* and the two addresses of it_computes_friendly_addresses.
ByteSamples == {0, 1, 127, 128, 255}
AddressInputs ==
    {[i \in 1..AddressSize |-> IF i = position THEN byte ELSE other] :
        position \in 1..AddressSize, byte \in ByteSamples, other \in ByteSamples}
    \cup {<<233, 145, 15, 36, 82, 65, 152, 35, 220, 46,
            85, 52, 99, 50, 16, 7, 74, 233, 82, 127>>,
          <<41, 135, 194, 140, 31, 243, 115, 186, 30, 24,
            169, 162, 239, 230, 220, 16, 30, 226, 94, 217>>}

InitAddress ==
    /\ kv = set_head(put_chain_info(accounts_init(EmptyDb), GenesisHash,
                                    ChainInfoInitial(GenesisBlock), TRUE), GenesisHash)
    /\ state = [transaction_cache |-> <<>>,
                main_chain |-> ChainInfoInitial(GenesisBlock),
                head_hash |-> GenesisHash,
                chain_proof |-> {}]
    /\ txn = {}
    /\ push_lock = NoThread
    /\ state_lock = FreeLock
    /\ pc = [t \in Threads |-> "idle"]
    /\ blk = [t \in Threads |-> NoBlock]
    /\ result = [t \in Threads |-> "none"]
    /\ event = [t \in Threads |-> <<>>]
    /\ loc = {}
    /\ pre = [t \in Threads |-> {}]
    /\ proof = NoProof
    /\ pool = NoPool
    /\ clock = 0
    /\ \E address \in AddressInputs :
          ret = [t \in Threads |->
                    IF t \in Readers THEN [op |-> "address", address |-> address] ELSE NoRet]

\* Address::to_user_friendly_address on the address at hand.
ToUserFriendlyAddress(t) ==
    /\ ret[t].op = "address"
    /\ ret' = [ret EXCEPT ![t] =
                  [op |-> "to_user_friendly_address", address |-> ret[t].address,
                   friendly |-> to_user_friendly_address(ret[t].address)]]
    /\ UNCHANGED <<kv, txn, state, push_lock, state_lock, pc, blk, result, event, loc, pre, proof, pool, clock>>

\* Address::from_user_friendly_address on the string just formatted.
FromUserFriendlyAddress(t) ==
    /\ ret[t].op = "to_user_friendly_address"
    /\ LET parsed == from_user_friendly_address(ret[t].friendly)
       IN  /\ ret' = [ret EXCEPT ![t] =
                         [op |-> "from_user_friendly_address", address |-> ret[t].address,
                          friendly |-> ret[t].friendly, parsed |-> parsed]]
           /\ pc' = IF parsed.panic THEN [pc EXCEPT ![t] = "panicked"] ELSE pc
    /\ UNCHANGED <<kv, txn, state, push_lock, state_lock, blk, result, event, loc, pre, proof, pool, clock>>

NextAddress == \E t \in Readers : ToUserFriendlyAddress(t) \/ FromUserFriendlyAddress(t)

SpecAddress == InitAddress /\ [][NextAddress]_vars

(***************************************************************************)
(* ConnectionPool (src/network/connection/connection_pool.rs): the         *)
(* connections in a SparseVec, indexed by peer address, net address and    *)
(* subnet, with the peer counters and the banned addresses.  A HashMap is  *)
(* a function whose domain is its set of keys.                             *)
(***************************************************************************)
PEER_COUNT_MAX == 2
PEER_COUNT_PER_IP_MAX == 1
OUTBOUND_PEER_COUNT_PER_SUBNET_MAX == 1
INBOUND_PEER_COUNT_PER_SUBNET_MAX == 1
PEER_COUNT_DUMB_MAX == 1
IPV4_SUBNET_MASK == 1
IPV6_SUBNET_MASK == 1
BanSubnetMask == 1
IpBits == 2
MaxConnections == 2
DEFAULT_BAN_TIME == 1000 * 60 * 10

\* HashMap::get, insert and remove.
MapGet(map, key) == IF key \in DOMAIN map THEN {map[key]} ELSE {}
MapInsert(map, key, value) == [k \in DOMAIN map \cup {key} |-> IF k = key THEN value ELSE map[k]]
MapRemove(map, key) == [k \in DOMAIN map \ {key} |-> map[k]]

\* NetAddress: a type, the address as a number of IpBits bits, and whether it
\* is reliable.  subnet keeps the leading bits.
NetAddress(type, ip, reliable) == [type |-> type, ip |-> ip, reliable |-> reliable]
is_reliable(net_address) == net_address.reliable
is_pseudo(net_address) == net_address.type \notin {"IPv4", "IPv6"}
subnet(net_address, bit_mask) ==
    [net_address EXCEPT !.ip = (@ \div (2 ^ (IpBits - bit_mask))) * (2 ^ (IpBits - bit_mask))]

\* PeerAddress and Peer.
PeerAddress(protocol, net_address, peer_id) ==
    [protocol |-> protocol, net_address |-> net_address, peer_id |-> peer_id]
Peer(peer_address, net_address) == [peer_address |-> peer_address, net_address |-> net_address]

\* NetworkConnection: inbound or outbound, its net address and, when
\* outbound, its peer address; closing once close was called on it.
NetworkConnection(inbound, net_address, peer_address) ==
    [inbound |-> inbound, net_address |-> net_address, peer_address |-> peer_address,
     closing |-> FALSE]

\* ConnectionInfo and its state changes.
ConnectionInfoOutbound(peer_address) ==
    [peer_address |-> {peer_address}, network_connection |-> {}, peer |-> {},
     state |-> "Connecting"]
ConnectionInfoInbound(connection) ==
    [peer_address |-> {}, network_connection |-> {connection}, peer |-> {},
     state |-> "Connected"]
set_network_connection(info, connection) ==
    [info EXCEPT !.network_connection = {connection}, !.state = "Connected"]
negotiating(info) == [info EXCEPT !.state = "Negotiating"]
set_peer_address(info, peer_address) == [info EXCEPT !.peer_address = {peer_address}]
set_peer(info, peer) == [info EXCEPT !.peer = {peer}, !.state = "Established"]

\* CloseType::is_banning_type.
BanningTypes == {"ReceivedInvalidBlock"}
CloseTypes == BanningTypes \cup {"ClosedByRemote"}
is_banning_type(ty) == ty \in BanningTypes

\* SparseVec: inner holds the slots from index 0 on, free_indices the indices
\* handed out next.
SparseVecNew == [inner |-> <<>>, free_indices |-> <<>>]
SparseVecGet(vec, index) == IF index < Len(vec.inner) THEN vec.inner[index + 1] ELSE {}
\* [vec, value]: the index joins free_indices whatever the slot holds.
SparseVecRemove(vec, index) ==
    [vec |-> [inner |-> IF index < Len(vec.inner)
                        THEN [vec.inner EXCEPT ![index + 1] = {}]
                        ELSE vec.inner,
              free_indices |-> Append(vec.free_indices, index)],
     value |-> SparseVecGet(vec, index)]
\* [panic, vec, index]: a free index is reused, and a value already in its slot
\* is kept; an index past the end aborts.
SparseVecInsert(vec, value) ==
    IF vec.free_indices # <<>>
    THEN LET index == Head(vec.free_indices)
         IN  IF index >= Len(vec.inner)
             THEN [panic |-> TRUE, vec |-> [vec EXCEPT !.free_indices = Tail(@)], index |-> index]
             ELSE [panic |-> FALSE,
                   vec |-> [inner |-> IF vec.inner[index + 1] = {}
                                      THEN [vec.inner EXCEPT ![index + 1] = {value}]
                                      ELSE vec.inner,
                            free_indices |-> Tail(vec.free_indices)],
                   index |-> index]
    ELSE [panic |-> FALSE,
          vec |-> [vec EXCEPT !.inner = Append(@, {value})],
          index |-> Len(vec.inner)]
\* SparseVec::get_mut followed by a change of the value.
SparseVecSet(vec, index, value) == [vec EXCEPT !.inner[index + 1] = {value}]

\* What a call leaves: whether it aborted, the pool, the value returned and the
\* connections it closed (ConnectionPool::close spawns the close).
PoolResult(panic, p, value, closed) ==
    [panic |-> panic, pool |-> p, value |-> value, closed |-> closed]
\* ConnectionPool::close: nothing is closed without a network connection.
Closed(id, info, ty) ==
    IF info.network_connection # {} THEN {[id |-> id, ty |-> ty]} ELSE {}

\* ConnectionPool::get_connection_by_peer_address: [panic, info].
get_connection_by_peer_address(p, peer_address) ==
    LET stored == MapGet(p.connections_by_peer_address, peer_address)
        found == UNION {SparseVecGet(p.connections, id) : id \in stored}
    IN  [panic |-> stored # {} /\ found = {}, info |-> found]

get_num_connections_by_net_address(p, net_address) ==
    IF net_address \in DOMAIN p.connections_by_net_address
    THEN Cardinality(p.connections_by_net_address[net_address])
    ELSE 0

\* ConnectionPool::get_subnet_address.
get_subnet_address(net_address) ==
    subnet(net_address, IF net_address.type = "IPv4" THEN IPV4_SUBNET_MASK
                                                   ELSE IPV6_SUBNET_MASK)

\* The ids indexed for the subnet of net_address.
SubnetIds(p, net_address) ==
    IF get_subnet_address(net_address) \in DOMAIN p.connections_by_subnet
    THEN p.connections_by_subnet[get_subnet_address(net_address)]
    ELSE {}
get_num_connections_by_subnet(p, net_address) == Cardinality(SubnetIds(p, net_address))
\* ConnectionPool::get_num_outbound_connections_by_subnet: [panic, value]; an
\* indexed id without a connection aborts.
get_num_outbound_connections_by_subnet(p, net_address) ==
    [panic |-> \E id \in SubnetIds(p, net_address) : SparseVecGet(p.connections, id) = {},
     value |-> Cardinality({id \in SubnetIds(p, net_address) :
                   \E info \in SparseVecGet(p.connections, id) :
                       \E network_connection \in info.network_connection :
                           ~network_connection.inbound})]

peer_count(p) == p.peer_count_ws + p.peer_count_wss + p.peer_count_rtc + p.peer_count_dumb

\* ConnectionPool::ban_ip at the time now, in seconds.
ban_ip(p, net_address, now) ==
    IF is_reliable(net_address)
    THEN [p EXCEPT !.banned_ips =
              MapInsert(@, IF net_address.type = "IPv4" THEN net_address
                           ELSE subnet(net_address, BanSubnetMask),
                        now + DEFAULT_BAN_TIME)]
    ELSE p

is_ip_banned(p, net_address) ==
    ~is_pseudo(net_address) /\ net_address \in DOMAIN p.banned_ips

\* ConnectionPool::check_unban_ips.
check_unban_ips(p, now) ==
    [p EXCEPT !.banned_ips =
        [net_address \in {k \in DOMAIN p.banned_ips : p.banned_ips[k] > now} |->
            p.banned_ips[net_address]]]

\* ConnectionPool::add: [panic, pool, id].
add(p, info) ==
    LET inserted == SparseVecInsert(p.connections, info)
        stored == [p EXCEPT !.connections = inserted.vec]
    IN  [panic |-> inserted.panic,
         pool |-> IF info.peer_address = {} \/ inserted.panic THEN stored
                  ELSE [stored EXCEPT !.connections_by_peer_address =
                           MapInsert(@, CHOOSE a \in info.peer_address : TRUE, inserted.index)],
         id |-> inserted.index]

add_peer_address(p, connection_id, peer_address) ==
    [p EXCEPT !.connections_by_peer_address = MapInsert(@, peer_address, connection_id)]

\* HashMap entry of a set of ids: insert an id, and remove one, dropping the
\* key with its last id.
IdsInsert(map, key, id) ==
    MapInsert(map, key, (IF key \in DOMAIN map THEN map[key] ELSE {}) \cup {id})
IdsRemove(map, key, id) ==
    IF key \notin DOMAIN map THEN map
    ELSE IF map[key] \ {id} = {} THEN MapRemove(map, key)
    ELSE MapInsert(map, key, map[key] \ {id})

add_net_address(p, connection_id, net_address) ==
    IF ~is_reliable(net_address) THEN p
    ELSE [p EXCEPT
            !.connections_by_net_address = IdsInsert(@, net_address, connection_id),
            !.connections_by_subnet =
                IdsInsert(@, get_subnet_address(net_address), connection_id)]
\* A removal that leaves the subnet index alone.
remove_net_address_keeping_subnet(p, connection_id, net_address) ==
    IF ~is_reliable(net_address) THEN p
    ELSE [p EXCEPT
            !.connections_by_net_address = IdsRemove(@, net_address, connection_id)]
remove_net_address(p, connection_id, net_address) ==
    IF ~is_reliable(net_address) THEN p
    ELSE [p EXCEPT
            !.connections_by_net_address = IdsRemove(@, net_address, connection_id),
            !.connections_by_subnet =
                IdsRemove(@, get_subnet_address(net_address), connection_id)]

\* ConnectionPool::remove: [panic, pool, info]; the unwrap aborts on an empty
\* slot, after the index has joined free_indices.
remove(p, connection_id) ==
    LET removed == SparseVecRemove(p.connections, connection_id)
        vacated == [p EXCEPT !.connections = removed.vec]
    IN  IF removed.value = {}
        THEN [panic |-> TRUE, pool |-> vacated, info |-> {}]
        ELSE LET info == CHOOSE i \in removed.value : TRUE
                 unindexed ==
                     IF info.peer_address = {} THEN vacated
                     ELSE [vacated EXCEPT !.connections_by_peer_address =
                              MapRemove(@, CHOOSE a \in info.peer_address : TRUE)]
             IN  [panic |-> FALSE,
                  pool |-> IF info.network_connection = {} THEN unindexed
                           ELSE remove_net_address(unindexed, connection_id,
                                    (CHOOSE c \in info.network_connection : TRUE).net_address),
                  info |-> {info}]

\* ConnectionPool::update_connected_peer_count: [panic, pool]; update is 1 for
\* Add and -1 for Remove.  The unwraps abort when the connection, its peer
\* address or its network connection is missing, checked_sub below zero.
update_connected_peer_count(p, connection_id, update) ==
    LET stored == SparseVecGet(p.connections, connection_id)
        info == CHOOSE i \in stored : TRUE
        protocol == (CHOOSE a \in info.peer_address : TRUE).protocol
        counter == CASE protocol = "Wss" -> "peer_count_wss"
                     [] protocol = "Ws" -> "peer_count_ws"
                     [] protocol = "Rtc" -> "peer_count_rtc"
                     [] OTHER -> "peer_count_dumb"
        counted == [p EXCEPT ![counter] = @ + update]
        outbound == ~(CHOOSE c \in info.network_connection : TRUE).inbound
    IN  IF stored = {} THEN [panic |-> TRUE, pool |-> p]
        ELSE IF info.peer_address = {} \/ info.network_connection = {}
        THEN [panic |-> TRUE, pool |-> p]
        ELSE IF p[counter] + update < 0 THEN [panic |-> TRUE, pool |-> p]
        ELSE IF ~outbound THEN [panic |-> FALSE, pool |-> counted]
        ELSE IF p.peer_count_outbound + update < 0 THEN [panic |-> TRUE, pool |-> counted]
        ELSE [panic |-> FALSE,
              pool |-> [counted EXCEPT !.peer_count_outbound = @ + update]]

\* The request check without the limit on outbound connections per subnet.
check_outbound_per_ip_only(p, peer_address) ==
    LET info == get_connection_by_peer_address(p, peer_address)
    IN  IF peer_address.protocol \notin {"Wss", "Ws"} THEN [panic |-> FALSE, value |-> FALSE]
        ELSE IF info.panic THEN [panic |-> TRUE, value |-> FALSE]
        ELSE IF info.info # {} THEN [panic |-> FALSE, value |-> FALSE]
        ELSE IF ~is_reliable(peer_address.net_address) THEN [panic |-> FALSE, value |-> TRUE]
        ELSE [panic |-> FALSE,
              value |-> get_num_connections_by_net_address(p, peer_address.net_address)
                            < PEER_COUNT_PER_IP_MAX]

\* ConnectionPool::check_outbound_connection_request: [panic, value].
check_outbound_connection_request(p, peer_address) ==
    LET info == get_connection_by_peer_address(p, peer_address)
        outbound == get_num_outbound_connections_by_subnet(p, peer_address.net_address)
    IN  IF peer_address.protocol \notin {"Wss", "Ws"} THEN [panic |-> FALSE, value |-> FALSE]
        ELSE IF info.panic THEN [panic |-> TRUE, value |-> FALSE]
        ELSE IF info.info # {} THEN [panic |-> FALSE, value |-> FALSE]
        ELSE IF ~is_reliable(peer_address.net_address) THEN [panic |-> FALSE, value |-> TRUE]
        ELSE IF get_num_connections_by_net_address(p, peer_address.net_address)
                    >= PEER_COUNT_PER_IP_MAX
        THEN [panic |-> FALSE, value |-> FALSE]
        ELSE IF outbound.panic THEN [panic |-> TRUE, value |-> FALSE]
        ELSE [panic |-> FALSE, value |-> outbound.value < OUTBOUND_PEER_COUNT_PER_SUBNET_MAX]

\* ConnectionPool::connect_outbound.
connect_outbound(p, peer_address) ==
    LET checked == check_outbound_connection_request(p, peer_address)
        added == add(p, ConnectionInfoOutbound(peer_address))
    IN  IF checked.panic THEN PoolResult(TRUE, p, FALSE, {})
        ELSE IF ~checked.value THEN PoolResult(FALSE, p, FALSE, {})
        ELSE IF added.panic THEN PoolResult(TRUE, added.pool, FALSE, {})
        ELSE PoolResult(FALSE, [added.pool EXCEPT !.connecting_count = @ + 1], TRUE, {})

\* ConnectionPool::check_connection.
check_connection(p, connection_id) ==
    LET stored == SparseVecGet(p.connections, connection_id)
        info == CHOOSE i \in stored : TRUE
        conn == CHOOSE c \in info.network_connection : TRUE
        net_address == conn.net_address
        close(ty) == PoolResult(FALSE, p, FALSE, Closed(connection_id, info, ty))
    IN  IF stored = {} THEN PoolResult(TRUE, p, FALSE, {})
        ELSE IF info.network_connection = {} THEN PoolResult(TRUE, p, FALSE, {})
        ELSE IF conn.inbound /\ ~p.allow_inbound_connections
        THEN close("InboundConnectionsBlocked")
        ELSE IF is_reliable(net_address) /\ is_ip_banned(p, net_address)
        THEN close("BannedIp")
        ELSE IF /\ is_reliable(net_address)
                /\ get_num_connections_by_net_address(p, net_address) > PEER_COUNT_PER_IP_MAX
        THEN close("ConnectionLimitPerIp")
        ELSE IF /\ is_reliable(net_address)
                /\ get_num_connections_by_subnet(p, net_address)
                       > INBOUND_PEER_COUNT_PER_SUBNET_MAX
        THEN close("ConnectionLimitPerIp")
        ELSE IF /\ peer_count(p) >= PEER_COUNT_MAX
                /\ conn.inbound
                /\ ~(conn.inbound /\ p.allow_inbound_exchange)
        THEN close("MaxPeerCountReached")
        ELSE PoolResult(FALSE, p, TRUE, {})

\* ConnectionPool::on_connection.
on_connection(p, connection) ==
    LET peer_address == CHOOSE a \in connection.peer_address : TRUE
        stored == MapGet(p.connections_by_peer_address, peer_address)
        connection_id == CHOOSE id \in stored : TRUE
        info == SparseVecGet(p.connections, connection_id)
        counted == [p EXCEPT !.connecting_count = @ - 1]
        connected == [counted EXCEPT !.connections =
                         SparseVecSet(@, connection_id,
                             set_network_connection(CHOOSE i \in info : TRUE, connection))]
        added == add(p, ConnectionInfoInbound(connection))
        inbound == [added.pool EXCEPT !.inbound_count = @ + 1]
    IN  IF ~connection.inbound
        THEN IF p.connecting_count = 0 THEN PoolResult(TRUE, p, FALSE, {})
             ELSE IF connection.peer_address = {} \/ stored = {}
             THEN PoolResult(TRUE, counted, FALSE, {})
             ELSE IF info = {} THEN PoolResult(TRUE, counted, FALSE, {})
             ELSE IF (CHOOSE i \in info : TRUE).state # "Connecting"
             THEN PoolResult(TRUE, counted, FALSE, {})
             ELSE [check_connection(connected, connection_id) EXCEPT !.value = connection_id]
        ELSE IF added.panic THEN PoolResult(TRUE, added.pool, FALSE, {})
        ELSE [check_connection(inbound, added.id) EXCEPT !.value = added.id]

\* ConnectionPool::check_handshake: its last statement returns false.
check_handshake(p, connection_id, peer) ==
    LET current == SparseVecGet(p.connections, connection_id)
        info == CHOOSE i \in current : TRUE
        stored == MapGet(p.connections_by_peer_address, peer.peer_address) \ {connection_id}
        stored_connection == UNION {SparseVecGet(p.connections, id) : id \in stored}
    IN  IF current = {} THEN PoolResult(TRUE, p, FALSE, {})
        ELSE IF stored # {} /\ stored_connection = {} THEN PoolResult(TRUE, p, FALSE, {})
        ELSE IF \E other \in stored_connection : other.state = "Established"
        THEN PoolResult(FALSE, p, FALSE, Closed(connection_id, info, "DuplicateConnection"))
        ELSE IF peer.peer_address.protocol = "Dumb" /\ p.peer_count_dumb >= PEER_COUNT_DUMB_MAX
        THEN PoolResult(FALSE, p, FALSE, Closed(connection_id, info, "ConnectionLimitDumb"))
        ELSE PoolResult(FALSE,
                        [p EXCEPT !.connections =
                            SparseVecSet(@, connection_id, negotiating(info))],
                        FALSE, {})

\* The part of on_handshake after the checks of an inbound connection: the
\* connection becomes Established and is counted.
HandshakeAccepted(p, connection_id, peer) ==
    LET info == CHOOSE i \in SparseVecGet(p.connections, connection_id) : TRUE
        established == [p EXCEPT !.connections =
                           SparseVecSet(@, connection_id, set_peer(info, peer))]
        indexed == IF peer.net_address = {} THEN established
                   ELSE add_net_address(established, connection_id,
                                        CHOOSE a \in peer.net_address : TRUE)
        counted == update_connected_peer_count(indexed, connection_id, 1)
    IN  PoolResult(counted.panic, counted.pool, TRUE, {})

\* ConnectionPool::on_handshake; value tells whether the handshake was
\* accepted.
on_handshake(p, connection_id, peer) ==
    LET current == SparseVecGet(p.connections, connection_id)
        info == CHOOSE i \in current : TRUE
        network_connection == CHOOSE c \in info.network_connection : TRUE
        all_stored == MapGet(p.connections_by_peer_address, peer.peer_address)
        stored == all_stored \ {connection_id}
        stored_id == CHOOSE id \in stored : TRUE
        stored_connection == SparseVecGet(p.connections, stored_id)
        stored_info == CHOOSE i \in stored_connection : TRUE
        addressed == add_peer_address(
                        [p EXCEPT !.connections =
                            SparseVecSet(@, connection_id,
                                         set_peer_address(info, peer.peer_address))],
                        connection_id, peer.peer_address)
        counted == [addressed EXCEPT !.inbound_count = @ - 1]
    IN  IF current = {} THEN PoolResult(TRUE, p, FALSE, {})
        ELSE IF info.network_connection = {} THEN PoolResult(TRUE, p, FALSE, {})
        ELSE IF ~network_connection.inbound THEN HandshakeAccepted(p, connection_id, peer)
        ELSE IF peer_count(p) >= PEER_COUNT_MAX /\ ~p.allow_inbound_exchange
        THEN PoolResult(FALSE, p, FALSE, Closed(connection_id, info, "MaxPeerCountReached"))
        ELSE IF stored # {} /\ stored_connection = {} THEN PoolResult(TRUE, p, FALSE, {})
        ELSE IF stored # {} /\ stored_info.state = "Established"
        THEN PoolResult(FALSE, p, FALSE, Closed(connection_id, info, "DuplicateConnection"))
        ELSE IF stored # {} /\ stored_info.state = "Connecting"
        THEN \* the attempt is not aborted and the assertion finds it
             PoolResult(TRUE, p, FALSE, {})
        ELSE IF stored # {}
        THEN \* the stored connection is closed by a spawned task and the
             \* assertion finds it still indexed
             PoolResult(TRUE, p, FALSE, Closed(stored_id, stored_info, "SimultaneousConnection"))
        ELSE IF all_stored # {} THEN PoolResult(TRUE, p, FALSE, {})
        ELSE IF p.inbound_count = 0 THEN PoolResult(TRUE, addressed, FALSE, {})
        ELSE HandshakeAccepted(counted, connection_id, peer)

\* ConnectionPool::on_close at the time now: the connection is removed before
\* update_connected_peer_count looks it up.
on_close(p, connection_id, ty, now) ==
    LET removed == remove(p, connection_id)
        info == CHOOSE i \in removed.info : TRUE
        banned == IF is_banning_type(ty) /\ info.network_connection # {}
                  THEN ban_ip(removed.pool,
                              (CHOOSE c \in info.network_connection : TRUE).net_address, now)
                  ELSE removed.pool
        counted == update_connected_peer_count(banned, connection_id, -1)
    IN  IF SparseVecGet(p.connections, connection_id) = {} THEN PoolResult(TRUE, p, FALSE, {})
        ELSE IF removed.panic THEN PoolResult(TRUE, removed.pool, FALSE, {})
        ELSE IF info.state = "Established"
        THEN PoolResult(counted.panic, counted.pool, TRUE, {})
        ELSE IF info.network_connection = {} THEN PoolResult(TRUE, removed.pool, FALSE, {})
        ELSE IF (CHOOSE c \in info.network_connection : TRUE).inbound
                   /\ removed.pool.inbound_count = 0
        THEN PoolResult(TRUE, removed.pool, FALSE, {})
        ELSE PoolResult(FALSE, removed.pool, TRUE, {})

\* The net addresses and peer addresses connections come from: two IPv4
\* addresses of one subnet, an IPv6 address that differs from its ban subnet,
\* and an unreliable one.
NetAddresses ==
    {NetAddress("IPv4", 0, TRUE), NetAddress("IPv4", 1, TRUE),
     NetAddress("IPv6", 3, TRUE), NetAddress("Unspecified", 0, FALSE)}
PeerAddresses ==
    {PeerAddress("Ws", NetAddress("IPv4", 0, TRUE), 1),
     PeerAddress("Wss", NetAddress("IPv4", 0, TRUE), 2),
     PeerAddress("Ws", NetAddress("IPv4", 1, TRUE), 3),
     PeerAddress("Dumb", NetAddress("IPv6", 3, TRUE), 4),
     PeerAddress("Dumb", NetAddress("IPv6", 3, TRUE), 5),
     PeerAddress("Ws", NetAddress("Unspecified", 0, FALSE), 6)}
ClockValues == {0, 60 * 10}
\* Caps on the counters that the pool never brings down again.
MaxInboundCount == 2
MaxPeerCount == 2

\* The thread that owns the pool.
PoolThread == "t1"

\* The pool as constructed: no connection, and either setting of the flags.
PoolNew(allow_inbound_connections, allow_inbound_exchange) ==
    [connections |-> SparseVecNew,
     connections_by_peer_address |-> <<>>,
     connections_by_net_address |-> <<>>,
     connections_by_subnet |-> <<>>,
     peer_count_ws |-> 0, peer_count_wss |-> 0, peer_count_rtc |-> 0, peer_count_dumb |-> 0,
     peer_count_outbound |-> 0,
     connecting_count |-> 0,
     inbound_count |-> 0,
     allow_inbound_connections |-> allow_inbound_connections,
     allow_inbound_exchange |-> allow_inbound_exchange,
     banned_ips |-> <<>>]

InitPool ==
    /\ kv = set_head(put_chain_info(accounts_init(EmptyDb), GenesisHash,
                                    ChainInfoInitial(GenesisBlock), TRUE), GenesisHash)
    /\ state = [transaction_cache |-> <<>>,
                main_chain |-> ChainInfoInitial(GenesisBlock),
                head_hash |-> GenesisHash,
                chain_proof |-> {}]
    /\ txn = {}
    /\ push_lock = NoThread
    /\ state_lock = FreeLock
    /\ pc = [t \in Threads |-> "idle"]
    /\ blk = [t \in Threads |-> NoBlock]
    /\ result = [t \in Threads |-> "none"]
    /\ event = [t \in Threads |-> <<>>]
    /\ loc = {}
    /\ pre = [t \in Threads |-> {}]
    /\ ret = [t \in Threads |-> NoRet]
    /\ proof = NoProof
    /\ clock = 0
    /\ \E inbound \in BOOLEAN, exchange \in BOOLEAN :
          /\ exchange => inbound
          /\ pool = PoolNew(inbound, exchange)

\* The closes a call spawned reach their network connections.
Closing(p, closed) ==
    [p EXCEPT !.connections.inner =
        [i \in DOMAIN @ |->
            IF \E c \in closed : c.id = i - 1
            THEN {[info EXCEPT !.network_connection =
                      {[connection EXCEPT !.closing = TRUE] : connection \in @}] :
                  info \in @[i]}
            ELSE @[i]]]

\* A call on the pool: the pool it leaves, and in ret the call, its value and
\* what it closed.  An abort ends the call, which runs as a task of its own,
\* and leaves the pool as it was at the abort; the pool is followed up to its
\* second aborted call.
PoolCall(op, args, called) ==
    /\ (pc[PoolThread] = "idle" \/ ~called.panic)
    /\ pool' = Closing(called.pool, called.closed)
    /\ ret' = [ret EXCEPT ![PoolThread] =
                  [op |-> op, args |-> args, panic |-> called.panic,
                   value |-> called.value, closed |-> called.closed]]
    /\ pc' = IF called.panic THEN [pc EXCEPT ![PoolThread] = "panicked"] ELSE pc
    /\ UNCHANGED <<kv, txn, state, push_lock, state_lock, blk, result, event, loc, pre,
                   proof, clock>>

\* The connections in the pool, by id.
Occupied(p) == {id \in 0..(Len(p.connections.inner) - 1) : SparseVecGet(p.connections, id) # {}}
InfoOf(p, id) == CHOOSE info \in SparseVecGet(p.connections, id) : TRUE
RoomInPool(p) == Len(p.connections.inner) < MaxConnections \/ p.connections.free_indices # <<>>

ConnectOutbound(peer_address) ==
    /\ RoomInPool(pool)
    /\ PoolCall("connect_outbound", peer_address, connect_outbound(pool, peer_address))

\* on_connection for an attempt that is under way, or for an inbound
\* connection from any net address.
OnConnection(connection) ==
    /\ \/ /\ connection.inbound
          /\ connection.peer_address = {}
          /\ RoomInPool(pool)
          /\ pool.inbound_count < MaxInboundCount
       \/ /\ ~connection.inbound
          /\ \E id \in Occupied(pool) :
                /\ InfoOf(pool, id).state = "Connecting"
                /\ InfoOf(pool, id).peer_address = connection.peer_address
          /\ \E peer_address \in connection.peer_address :
                peer_address.net_address = connection.net_address
    /\ PoolCall("on_connection", connection, on_connection(pool, connection))

\* The peers a connection can turn out to be: the peer dialled, or for an
\* inbound connection any peer at its net address; none once the connection
\* is closing.
PeersOf(info) ==
    LET connection == CHOOSE c \in info.network_connection : TRUE
    IN  {Peer(peer_address, {connection.net_address}) :
            peer_address \in {a \in PeerAddresses :
                /\ ~connection.closing
                /\ a.net_address = connection.net_address
                /\ ~connection.inbound => a \in info.peer_address}}

CheckHandshake(id, peer) ==
    /\ id \in Occupied(pool)
    /\ InfoOf(pool, id).state = "Connected"
    /\ peer \in PeersOf(InfoOf(pool, id))
    /\ PoolCall("check_handshake", [id |-> id, peer |-> peer], check_handshake(pool, id, peer))

OnHandshake(id, peer) ==
    /\ id \in Occupied(pool)
    /\ InfoOf(pool, id).state = "Negotiating"
    /\ peer \in PeersOf(InfoOf(pool, id))
    /\ peer_count(pool) < MaxPeerCount
    /\ PoolCall("on_handshake", [id |-> id, peer |-> peer], on_handshake(pool, id, peer))

OnClose(id, ty) ==
    /\ id \in Occupied(pool)
    /\ InfoOf(pool, id).network_connection # {}
    /\ PoolCall("on_close", [id |-> id, ty |-> ty, info |-> InfoOf(pool, id)],
                on_close(pool, id, ty, clock))

CheckUnbanIps ==
    /\ DOMAIN pool.banned_ips # {}
    /\ PoolCall("check_unban_ips", clock,
                PoolResult(FALSE, check_unban_ips(pool, clock), TRUE, {}))

\* SystemTime::now moves on; time is followed from the first ban on.
Tick ==
    /\ DOMAIN pool.banned_ips # {}
    /\ \E later \in ClockValues : later > clock /\ clock' = later
    /\ UNCHANGED <<kv, txn, state, push_lock, state_lock, pc, blk, result, event, loc, pre,
                   ret, proof, pool>>

NextPool ==
    \/ \E peer_address \in PeerAddresses : ConnectOutbound(peer_address)
    \/ \E inbound \in BOOLEAN, net_address \in NetAddresses,
          dialled \in {{}} \cup {{a} : a \in PeerAddresses} :
            OnConnection(NetworkConnection(inbound, net_address, dialled))
    \/ \E id \in 0..(MaxConnections - 1), peer_address \in PeerAddresses :
            \/ CheckHandshake(id, Peer(peer_address, {peer_address.net_address}))
            \/ OnHandshake(id, Peer(peer_address, {peer_address.net_address}))
    \/ \E id \in 0..(MaxConnections - 1), ty \in CloseTypes : OnClose(id, ty)
    \/ CheckUnbanIps
    \/ Tick

SpecPool == InitPool /\ [][NextPool]_vars

(***************************************************************************)
(* SparseVec on its own (connection_pool.rs): any sequence of insert and   *)
(* remove calls, with every index as argument of remove.  The vector is    *)
(* held in pool.connections; ret records the last call, the vector before  *)
(* it and what it returned.                                                *)
(***************************************************************************)
MaxSlots == 3
MaxFree == 3
VecValues == {"a", "b"}

InitVec ==
    /\ kv = set_head(put_chain_info(accounts_init(EmptyDb), GenesisHash,
                                    ChainInfoInitial(GenesisBlock), TRUE), GenesisHash)
    /\ state = [transaction_cache |-> <<>>,
                main_chain |-> ChainInfoInitial(GenesisBlock),
                head_hash |-> GenesisHash,
                chain_proof |-> {}]
    /\ txn = {}
    /\ push_lock = NoThread
    /\ state_lock = FreeLock
    /\ pc = [t \in Threads |-> "idle"]
    /\ blk = [t \in Threads |-> NoBlock]
    /\ result = [t \in Threads |-> "none"]
    /\ event = [t \in Threads |-> <<>>]
    /\ loc = {}
    /\ pre = [t \in Threads |-> {}]
    /\ ret = [t \in Threads |-> NoRet]
    /\ proof = NoProof
    /\ pool = [connections |-> SparseVecNew]
    /\ clock = 0

\* SparseVec::insert; an abort ends the thread.
VecInsert(value) ==
    /\ pc[PoolThread] = "idle"
    /\ Len(pool.connections.inner) < MaxSlots \/ pool.connections.free_indices # <<>>
    /\ LET inserted == SparseVecInsert(pool.connections, value)
       IN  /\ pool' = [connections |-> inserted.vec]
           /\ pc' = IF inserted.panic THEN [pc EXCEPT ![PoolThread] = "panicked"] ELSE pc
           /\ ret' = [ret EXCEPT ![PoolThread] =
                         [op |-> "insert", args |-> value, before |-> pool.connections,
                          panic |-> inserted.panic, value |-> inserted.index]]
    /\ UNCHANGED <<kv, txn, state, push_lock, state_lock, blk, result, event, loc, pre,
                   proof, clock>>

\* SparseVec::remove of any index, in or out of range.
VecRemove(index) ==
    /\ pc[PoolThread] = "idle"
    /\ Len(pool.connections.free_indices) < MaxFree
    /\ LET removed == SparseVecRemove(pool.connections, index)
       IN  /\ pool' = [connections |-> removed.vec]
           /\ ret' = [ret EXCEPT ![PoolThread] =
                         [op |-> "remove", args |-> index, before |-> pool.connections,
                          panic |-> FALSE, value |-> removed.value]]
    /\ UNCHANGED <<kv, txn, state, push_lock, state_lock, pc, blk, result, event, loc, pre,
                   proof, clock>>

NextVec ==
    \/ \E value \in VecValues : VecInsert(value)
    \/ \E index \in 0..MaxSlots : VecRemove(index)

SpecVec == InitVec /\ [][NextVec]_vars

(***************************************************************************)
(* Properties.                                                             *)
(***************************************************************************)
Snapshot(t) == CHOOSE p \in pre[t] : TRUE
Returned(t, res) == pc[t] = "returned" /\ result[t] = res
Unchanged(t) == kv = Snapshot(t).kv /\ state = Snapshot(t).state

\* The hashes from hash back to the first block whose predecessor is not stored,
\* tip first.
RECURSIVE PathBack(_, _)
PathBack(db, hash) ==
    IF hash \notin DOMAIN db.chain_db THEN <<>>
    ELSE <<hash>> \o PathBack(db, db.chain_db[hash].head.header.prev_hash)

\* The last n blocks (with bodies) of the chain ending at hash, oldest first.
RECURSIVE ChainBack(_, _, _)
ChainBack(db, hash, n) ==
    IF n = 0 \/ get_block(db, hash, TRUE) = {} THEN <<>>
    ELSE LET block == CHOOSE b \in get_block(db, hash, TRUE) : TRUE
         IN  Append(ChainBack(db, block.header.prev_hash, n - 1), block)

Range(seq) == {seq[i] : i \in 1..Len(seq)}

\* C1: whenever no push is in progress, the path by prev_hash from the head
\* ends at the genesis block, every block on it is flagged on_main_chain, every
\* block but the head points to the next block of the path as its successor, the
\* head has no successor, and every other stored block is not on_main_chain.
C1_MainChainLinked ==
    push_lock = NoThread =>
        LET path == PathBack(kv, state.head_hash)
        IN  /\ Len(path) >= 1
            /\ path[Len(path)] = GenesisHash
            /\ \A i \in 1..Len(path) :
                  /\ kv.chain_db[path[i]].on_main_chain
                  /\ kv.chain_db[path[i]].main_chain_successor
                        = (IF i = 1 THEN {} ELSE {path[i - 1]})
            /\ \A h \in (DOMAIN kv.chain_db) \ Range(path) : ~kv.chain_db[h].on_main_chain

\* A rebranch that left the ancestor above the genesis block has returned.
C1_Witness ==
    \E t \in Threads :
        /\ Returned(t, "Rebranched")
        /\ push_lock = NoThread
        /\ Len(event[t]) = 1
        /\ Len(event[t][1].reverted) >= 1
        /\ Len(event[t][1].adopted) >= 2
        /\ event[t][1].adopted[1].block.header.prev_hash # GenesisHash

\* C2: a push that got past the checks extends iff the block's prev_hash is the
\* head, else rebranches iff the block's total difficulty is strictly greater
\* than the head's, else stores a fork; and a push returns Extended, Rebranched
\* or Forked only for a block of that class.
C2_Classification ==
    \A t \in Threads :
        /\ pc[t] \in {"extend", "rebranch", "fork"} =>
              LET on_head == blk[t].header.prev_hash = state.head_hash
                  harder == Local.chain_info.total_difficulty
                               > state.main_chain.total_difficulty
              IN  /\ pc[t] = "extend" <=> on_head
                  /\ pc[t] = "rebranch" <=> ~on_head /\ harder
                  /\ pc[t] = "fork" <=> ~on_head /\ ~harder
        /\ pc[t] = "returned" /\ result[t] \in {"Extended", "Rebranched", "Forked"} =>
              LET before == Snapshot(t).state
                  hash == BlockHash(blk[t])
                  on_head == blk[t].header.prev_hash = before.head_hash
                  harder == kv.chain_db[hash].total_difficulty
                               > before.main_chain.total_difficulty
              IN  /\ hash \in DOMAIN kv.chain_db
                  /\ result[t] = "Extended" <=> on_head
                  /\ result[t] = "Rebranched" <=> ~on_head /\ harder
                  /\ result[t] = "Forked" <=> ~on_head /\ ~harder

\* A block of exactly the head's total difficulty was stored as a fork.
C2_Witness ==
    \E t \in Threads :
        /\ Returned(t, "Forked")
        /\ kv.chain_db[BlockHash(blk[t])].total_difficulty
              = state.main_chain.total_difficulty
        /\ ~kv.chain_db[BlockHash(blk[t])].on_main_chain

\* The cache that covers the last min(height, window) blocks ending at tip.
ExpectedCache(db, tip) ==
    LET blocks == ChainBack(db, tip, Min(db.chain_db[tip].head.header.height,
                                         TRANSACTION_VALIDITY_WINDOW))
    IN  [i \in 1..Len(blocks) |-> Descriptor(blocks[i])]

\* C3: after a push returned Rebranched, head_hash and the store's head are the
\* pushed block, and the transaction cache holds the last min(height, window)
\* blocks of the new main chain.
C3_RebranchedHead ==
    \A t \in Threads :
        Returned(t, "Rebranched") =>
            /\ state.head_hash = BlockHash(blk[t])
            /\ kv.head = BlockHash(blk[t])
            /\ state.transaction_cache = ExpectedCache(kv, BlockHash(blk[t]))

\* C4: a push that returns Invalid(DuplicateTransaction) or
\* Invalid(AccountsError) has aborted its transaction and left the store and the
\* in-memory state as they were; a block that extends the head with a
\* transaction of the cache is rejected as DuplicateTransaction.
C4_ExtendFailure ==
    \A t \in Threads :
        /\ pc[t] = "returned"
           /\ result[t] \in {"Invalid(DuplicateTransaction)", "Invalid(AccountsError)"}
           => txn = {} /\ Unchanged(t)
        /\ pc[t] = "returned"
           /\ result[t] \in {"Extended", "Invalid(AccountsError)", "Invalid(DuplicateTransaction)"}
           => (result[t] = "Invalid(DuplicateTransaction)"
                  <=> cache_contains_any(Snapshot(t).state.transaction_cache, blk[t]))

C4_Witness ==
    \E t \in Threads :
        /\ Returned(t, "Invalid(DuplicateTransaction)")
        /\ blk[t].header.prev_hash = state.head_hash
        /\ state.head_hash # GenesisHash

\* C5: a push that returns Invalid(InvalidFork) has aborted its transaction and
\* left the store (head, flags, accounts) and the in-memory state as they were.
C5_RebranchFailure ==
    \A t \in Threads :
        Returned(t, "Invalid(InvalidFork)") => txn = {} /\ Unchanged(t)

\* A rebranch failed after it had reverted a main-chain block with a transaction.
C5_Witness ==
    \E t \in Threads :
        /\ Returned(t, "Invalid(InvalidFork)")
        /\ blk[t].header.prev_hash # state.head_hash
        /\ BodyTxs(state.main_chain.head) # {}

\* C6: while a push is in progress the in-memory state differs from what it was
\* when the push began only if the push's transaction has been committed.
C6_MemoryAfterCommit ==
    \A t \in Threads :
        push_lock = t /\ state # Snapshot(t).state => txn = {} /\ kv # Snapshot(t).kv

InPush(t) == pc[t] \notin {"idle", "returned", "panicked"}
UnderLock(t) == InPush(t) /\ pc[t] \notin {"verify", "lock"}

\* C8 as stated: no two pushes overlap in any step.
C8_NoOverlap == \A t1, t2 \in Threads : InPush(t1) /\ InPush(t2) => t1 = t2

\* C8 amended: past its intrinsic verification a push holds push_lock until it
\* returns, so no two pushes overlap in any step after the verification.
C8_MutualExclusion ==
    /\ \A t1, t2 \in Threads : UnderLock(t1) /\ UnderLock(t2) => t1 = t2
    /\ \A t \in Threads : UnderLock(t) <=> push_lock = t

\* One push is committing an extend while another has verified its block and
\* waits for push_lock.
C8_Witness ==
    \E t1, t2 \in Threads : pc[t1] = "extend_commit" /\ pc[t2] = "lock"

\* C9: a push that took push_lock returns Known iff the block's hash is stored,
\* and Orphan iff it is not and its prev_hash is not stored either; neither
\* changes the store or the state, nor emits an event.
C9_KnownOrphan ==
    \A t \in Threads :
        pc[t] = "returned" /\ pre[t] # {} =>
            LET db == Snapshot(t).kv
                known == BlockHash(blk[t]) \in DOMAIN db.chain_db
                orphan == blk[t].header.prev_hash \notin DOMAIN db.chain_db
            IN  /\ result[t] = "Known" <=> known
                /\ result[t] = "Orphan" <=> ~known /\ orphan
                /\ result[t] \in {"Known", "Orphan"} =>
                      Unchanged(t) /\ txn = {} /\ event[t] = <<>>

\* The genesis block, known and with an unknown predecessor, was pushed.
C9_Witness ==
    \E t \in Threads :
        /\ Returned(t, "Known")
        /\ blk[t].header.prev_hash \notin DOMAIN kv.chain_db

\* C10: a push of an unknown block with a stored predecessor returns
\* Invalid(InvalidSuccessor) if the height is not the predecessor's plus one, or
\* the timestamp is below the predecessor's, or prev_hash is not the hash of the
\* predecessor's header; else Invalid(DifficultyMismatch) if n_bits is not the
\* compact form of get_next_target(prev_hash); the store is unchanged by both.
C10_SuccessorDifficulty ==
    \A t \in Threads :
        pc[t] = "returned" /\ pre[t] # {} =>
            LET db == Snapshot(t).kv
                header == blk[t].header
                known == BlockHash(blk[t]) \in DOMAIN db.chain_db
                orphan == header.prev_hash \notin DOMAIN db.chain_db
                prev == db.chain_db[header.prev_hash].head.header
                bad_successor == \/ header.height # prev.height + 1
                                 \/ header.timestamp < prev.timestamp
                                 \/ header.prev_hash # HashOf(prev)
                target == get_next_target(db, Snapshot(t).state.main_chain, {header.prev_hash})
            IN  ~known /\ ~orphan =>
                   /\ bad_successor => result[t] = "Invalid(InvalidSuccessor)"
                   /\ ~bad_successor /\ ~target.panic
                         /\ header.n_bits # TargetToCompact(target.target)
                      => result[t] = "Invalid(DifficultyMismatch)"
                   /\ result[t] \in {"Invalid(InvalidSuccessor)", "Invalid(DifficultyMismatch)"}
                      => kv = db /\ txn = {}

\* A block at the right height and time was rejected for its n_bits, where the
\* required target is below the maximum.
C10_Witness ==
    \E t \in Threads :
        /\ Returned(t, "Invalid(DifficultyMismatch)")
        /\ get_next_target(kv, state.main_chain, {blk[t].header.prev_hash}).target
              < BLOCK_TARGET_MAX

\* C11: an event is delivered only by a push that holds push_lock, while nobody
\* holds the state write lock; a push that returned Extended or Rebranched has
\* emitted exactly one event, a push that returned anything else none.
C11_Notification ==
    /\ [](\A t \in Threads :
            pc[t] = "returned" =>
               Len(event[t]) = (IF result[t] \in {"Extended", "Rebranched"} THEN 1 ELSE 0))
    /\ [][\A t \in Threads :
            Len(event'[t]) > Len(event[t]) =>
               /\ push_lock = t /\ push_lock' = t
               /\ state_lock.writer = NoThread /\ state_lock'.writer = NoThread
               /\ Len(event'[t]) = 1
               /\ event'[t][1].type = (IF pc[t] = "extend_notify" THEN "Extended"
                                       ELSE "Rebranched")]_vars

\* A Rebranched event has just been delivered, push_lock still held, while
\* another push waits for the lock.
C11_Witness ==
    \E t1, t2 \in Threads :
        /\ pc[t1] = "rebranch_return"
        /\ Len(event[t1]) = 1
        /\ push_lock = t1
        /\ pc[t2] = "lock"

\* Every element is the hash of its block, and each element after the first is
\* the prev_hash-successor of the one before, one higher.
Linked(entries) ==
    /\ \A i \in 1..Len(entries) : entries[i].hash = BlockHash(entries[i].block)
    /\ \A i \in 1..(Len(entries) - 1) :
          /\ entries[i + 1].block.header.prev_hash = entries[i].hash
          /\ entries[i + 1].block.header.height = entries[i].block.header.height + 1

\* C12: the Rebranched event's reverted list runs from the child of the common
\* ancestor to the old head, its adopted list from the child of the common
\* ancestor to the pushed block, both linked by prev_hash in increasing height;
\* the reverted blocks were on the main chain before, the adopted ones not.
C12_RebranchedLists ==
    \A t \in Threads :
        Returned(t, "Rebranched") =>
            LET e == event[t][1]
                before == Snapshot(t)
                ancestor == e.adopted[1].block.header.prev_hash
            IN  /\ e.type = "Rebranched"
                /\ Len(e.reverted) >= 1 /\ Len(e.adopted) >= 1
                /\ Linked(e.reverted) /\ Linked(e.adopted)
                /\ e.reverted[Len(e.reverted)].hash = before.state.head_hash
                /\ e.adopted[Len(e.adopted)].hash = BlockHash(blk[t])
                /\ e.reverted[1].block.header.prev_hash = ancestor
                /\ ancestor \in DOMAIN before.kv.chain_db
                /\ before.kv.chain_db[ancestor].on_main_chain
                /\ \A i \in 1..Len(e.reverted) :
                      before.kv.chain_db[e.reverted[i].hash].on_main_chain
                /\ \A i \in 1..Len(e.adopted) :
                      e.adopted[i].hash \in DOMAIN before.kv.chain_db
                         => ~before.kv.chain_db[e.adopted[i].hash].on_main_chain

\* A rebranch reverted two blocks and adopted two.
C12_Witness ==
    \E t \in Threads :
        /\ Returned(t, "Rebranched")
        /\ Len(event[t][1].reverted) >= 2
        /\ Len(event[t][1].adopted) >= 2

\* C13: every step that changes the head leaves no cached chain proof; a cached
\* proof is the proof of the current head; get_chain_proof returns the proof of
\* the head at the time of the call, and as long as the head is the same the
\* proof it returned is the cached one.
C13_ChainProof ==
    /\ [](state_lock.writer = NoThread =>
             \A p \in state.chain_proof : p = prove(kv, state.main_chain.head).proof)
    /\ [](\A t \in Threads :
             ret[t].op = "get_chain_proof" /\ ret[t].head = state.head_hash =>
                state.chain_proof = {ret[t].proof})
    /\ [][/\ state'.head_hash # state.head_hash => state'.chain_proof = {}
          /\ \A t \in Threads :
                ret'[t] # ret[t] /\ ret'[t].op = "get_chain_proof" =>
                   /\ ret'[t].head = state.head_hash
                   /\ prove(kv, state.main_chain.head).ok
                   /\ ret'[t].proof = prove(kv, state.main_chain.head).proof]_vars

\* A proof with a suffix was returned and a later push has changed the head
\* and dropped the cached proof.
C13_Witness ==
    \E t \in Threads :
        /\ ret[t].op = "get_chain_proof"
        /\ Len(ret[t].proof.suffix) >= 1
        /\ ret[t].head # state.head_hash
        /\ state.chain_proof = {}
        /\ push_lock = NoThread

Locators(t) == ret[t].locators
Height(db, hash) == db.chain_db[hash].head.header.height

\* C14: get_block_locators(n) returns at most n hashes.
C14_LocatorsLength ==
    \A t \in Threads :
        ret[t].op = "get_block_locators" => Len(Locators(t)) <= ret[t].max_count

\* C15: the locators start with the head hash, are hashes of main-chain blocks
\* in strictly decreasing height, and no hash occurs twice.
C15_LocatorsChain ==
    \A t \in Threads :
        ret[t].op = "get_block_locators" =>
            /\ Locators(t)[1] = state.head_hash
            /\ \A i \in 1..Len(Locators(t)) :
                  /\ Locators(t)[i] \in DOMAIN kv.chain_db
                  /\ kv.chain_db[Locators(t)[i]].on_main_chain
            /\ \A i \in 1..(Len(Locators(t)) - 1) :
                  /\ Locators(t)[i + 1] \in DOMAIN kv.chain_db
                  /\ Locators(t)[i] \in DOMAIN kv.chain_db
                  /\ Height(kv, Locators(t)[i + 1]) < Height(kv, Locators(t)[i])
            /\ \A i, j \in 1..Len(Locators(t)) : Locators(t)[i] = Locators(t)[j] => i = j

\* C16: the last locator is the genesis hash.
C16_LocatorsGenesis ==
    \A t \in Threads :
        ret[t].op = "get_block_locators" =>
            /\ Len(Locators(t)) >= 1
            /\ Locators(t)[Len(Locators(t))] = GenesisHash

\* The locators of a chain high enough for the exponential back-off to take
\* several steps, cut off by max_count in one case and not in the other.
C16_Witness ==
    \E t \in Threads :
        /\ ret[t].op = "get_block_locators"
        /\ state.main_chain.head.header.height >= TopLocators + 2 + 4 + 1
        /\ Len(Locators(t)) >= TopLocators + 3

\* The ancestor of a stored block at the given height, along prev_hash.
RECURSIVE AncestorAt(_, _, _)
AncestorAt(db, hash, height) ==
    LET found == get_chain_info(db, hash, FALSE)
    IN  IF found = {} THEN {}
        ELSE LET info == CHOOSE x \in found : TRUE
             IN  IF info.head.header.height <= height THEN {info}
                 ELSE AncestorAt(db, info.head.header.prev_hash, height)

\* C17: for every stored block, on the main chain or on a fork, the tail that
\* get_next_target selects is the block's ancestor at height
\* max(1, height - DIFFICULTY_BLOCK_WINDOW), and the assertion on head and tail
\* holds.
C17_TailSelection ==
    \A hash \in DOMAIN kv.chain_db :
        LET head_info == CHOOSE x \in get_chain_info(kv, hash, FALSE) : TRUE
            head == head_info.head.header
            tail_height == Max(1, SatSub(head.height, DIFFICULTY_BLOCK_WINDOW))
            tail == NextTargetTail(kv, head_info)
        IN  /\ tail = AncestorAt(kv, hash, tail_height)
            /\ \A tail_info \in tail :
                  \/ head.height - tail_info.head.header.height = DIFFICULTY_BLOCK_WINDOW
                  \/ head.height <= DIFFICULTY_BLOCK_WINDOW /\ tail_info.head.header.height = 1

\* C18: the target get_next_target returns is within [1, BLOCK_TARGET_MAX]; the
\* adjustment factor is within [1 / DIFFICULTY_MAX_ADJUSTMENT_FACTOR,
\* DIFFICULTY_MAX_ADJUSTMENT_FACTOR]; at head heights up to the window the
\* elapsed time and the difficulty delta are padded by (window - height + 1)
\* slots of BLOCK_TIME and of difficulty 1, above it they are not.
C18_TargetRange ==
    \A t \in Threads :
        ret[t].op = "get_next_target" =>
            LET head == ret[t].head_info.head.header
                tail == ret[t].tail_info.head.header
                slots == IF head.height <= DIFFICULTY_BLOCK_WINDOW
                         THEN DIFFICULTY_BLOCK_WINDOW - head.height + 1 ELSE 0
                adjustment == ret[t].adjustment
            IN  /\ ~ret[t].next_target.panic
                /\ ret[t].next_target.target >= 1
                /\ ret[t].next_target.target <= BLOCK_TARGET_MAX
                /\ adjustment.den > 0
                /\ adjustment.den <= adjustment.num * DIFFICULTY_MAX_ADJUSTMENT_FACTOR
                /\ adjustment.num <= adjustment.den * DIFFICULTY_MAX_ADJUSTMENT_FACTOR
                /\ ret[t].actual_time = head.timestamp - tail.timestamp + slots * BLOCK_TIME
                /\ ret[t].delta_total_difficulty =
                      ret[t].head_info.total_difficulty - ret[t].tail_info.total_difficulty
                         + slots * TargetToDifficulty(BLOCK_TARGET_MAX)

\* A window that took longer than the adjustment factor allows.
C18_Witness ==
    \E t \in Threads :
        /\ ret[t].op = "get_next_target"
        /\ ret[t].actual_time
              > DIFFICULTY_MAX_ADJUSTMENT_FACTOR * DIFFICULTY_BLOCK_WINDOW * BLOCK_TIME
        /\ ret[t].adjustment.den = 1
        /\ ret[t].next_target.target = BLOCK_TARGET_MAX

\* The branch that resolves node i of a list: the first later branch that
\* covers it by prefix once every node in between is resolved; 0 when there is
\* none.
RECURSIVE Resolver(_, _)
Resolver(nodes, i) ==
    LET resolves(j) ==
            /\ is_branch(nodes[j])
            /\ is_prefix_of(nodes[j].prefix, nodes[i].prefix)
            /\ \A k \in (i + 1)..(j - 1) : Resolver(nodes, k) \in (i + 1)..j
        later == {j \in (i + 1)..Len(nodes) : resolves(j)}
    IN  IF later = {} THEN 0 ELSE CHOOSE j \in later : \A other \in later : j <= other

\* A branch claims a node: its entry in the slot of the node carries the hash
\* and the prefix of the node.
Claims(branch, node) ==
    /\ get_child_hash(branch, node.prefix) = {NodeHash(node)}
    /\ get_child_prefix(branch, node.prefix) = {node.prefix}

\* The list is in bottom-up order: every node but the last is resolved by a
\* later branch.
BottomUp(nodes) == \A i \in 1..(Len(nodes) - 1) : Resolver(nodes, i) # 0
\* Every branch claims the nodes it resolves.
ChildrenMatch(nodes) ==
    \A i \in 1..Len(nodes) :
        Resolver(nodes, i) # 0 => Claims(nodes[Resolver(nodes, i)], nodes[i])
\* Exactly one node is unresolved, the last, and it is a branch with the empty
\* prefix.
RootLast(nodes) ==
    /\ nodes # <<>>
    /\ {i \in 1..Len(nodes) : Resolver(nodes, i) = 0} = {Len(nodes)}
    /\ is_branch(nodes[Len(nodes)])
    /\ nodes[Len(nodes)].prefix = <<>>
WellFormed(nodes) == BottomUp(nodes) /\ ChildrenMatch(nodes) /\ RootLast(nodes)

\* C19: verify returns true exactly on the lists that are in bottom-up order,
\* whose branches claim every node they resolve and whose only unresolved node
\* is the last, a branch with the empty prefix; on no other list does it set
\* verified; and after it returned true, root_hash is the hash of that node.
C19_VerifyIff ==
    \A t \in Readers :
        /\ ret[t].op = "verify" => (ret[t].value <=> WellFormed(proof.nodes))
        /\ proof.verified => WellFormed(proof.nodes)
        /\ ret[t] = Aborted("verify") => ~WellFormed(proof.nodes)
        /\ ret[t].op = "root_hash" /\ proof.verified =>
              \E i \in 1..Len(proof.nodes) :
                  /\ Resolver(proof.nodes, i) = 0
                  /\ ret[t].hash = NodeHash(proof.nodes[i])

\* verify returned true on the full listing of the tree and root_hash was read.
C19_Witness ==
    \E t \in Readers :
        /\ ret[t].op = "root_hash"
        /\ proof.verified
        /\ proof.nodes = <<T00, T01, B0, R>>

\* C20: on a list that is not well formed verify returns false and leaves the
\* proof unverified, and it never aborts.
C20_MalformedFalse ==
    \A t \in Readers :
        /\ ret[t] # Aborted("verify")
        /\ ret[t].op = "verify" /\ ~WellFormed(proof.nodes) =>
              ~ret[t].value /\ ~proof.verified

\* C21: get_account aborts exactly on a proof that verify has not accepted; on
\* an accepted proof it returns the account of the terminal listed at the
\* 2-nibbles-per-byte encoding of the address, and none when no terminal is
\* listed there.
C21_GetAccount ==
    \A t \in Readers :
        /\ ret[t] = Aborted("get_account") => ~proof.verified
        /\ ret[t].op = "get_account" =>
              /\ proof.verified
              /\ WellFormed(proof.nodes)
              /\ ret[t].account =
                    {node.account : node \in
                        {n \in Range(proof.nodes) :
                            n.kind = "terminal" /\ n.prefix = BytesToNibbles(ret[t].address)}}
              /\ Cardinality(ret[t].account) <= 1

\* On the verified list T00, B0, R the account at 00 was returned.
C21_Witness ==
    \E t \in Readers :
        /\ ret[t].op = "get_account"
        /\ proof.nodes = <<T00, B0, R>>
        /\ ret[t].address = <<0>>
        /\ ret[t].account = {T00.account}

\* The number a sequence of decimal digits writes, modulo 97.
Mod97(digits) ==
    LET pieces == (Len(digits) + 6) \div 7
        value[b \in 0..pieces] ==
            IF b = 0 THEN 0
            ELSE LET piece == SubSeq(digits, 7 * b - 6, Min(7 * b, Len(digits)))
                 IN  (value[b - 1] * 10 ^ Len(piece) + ParseDecimal(piece)) % 97
    IN  value[pieces]

\* C22: the user-friendly form of every address is nine groups of four
\* characters separated by single spaces, 36 characters without the spaces,
\* starting with NQ and the two digits of 98 - (iban value mod 97); parsing it
\* gives the address back.
C22_FriendlyRoundTrip ==
    \A t \in Readers :
        /\ ret[t].op \in {"to_user_friendly_address", "from_user_friendly_address"} =>
              LET friendly == ret[t].friendly
                  base32 == Base32Encode(ret[t].address)
                  check == 98 - Mod97(IbanDigits(base32 \o CCODE \o <<48, 48>>))
              IN  /\ Len(friendly) = FriendlyLength + 8
                  /\ \A i \in 1..Len(friendly) : (friendly[i] = 32) <=> (i % 5 = 0)
                  /\ Len(WithoutSpaces(friendly)) = FriendlyLength
                  /\ SubSeq(friendly, 1, 2) = CCODE
                  /\ SubSeq(friendly, 3, 4) = <<48 + (check \div 10), 48 + (check % 10)>>
                  /\ SubSeq(WithoutSpaces(friendly), 5, FriendlyLength) = base32
        /\ ret[t].op = "from_user_friendly_address" =>
              /\ ~ret[t].parsed.panic
              /\ ret[t].parsed.err = "none"
              /\ ret[t].parsed.address = {ret[t].address}

\* The second address of the test was formatted as NQ05 563U ... and parsed
\* back.
C22_Witness ==
    \E t \in Readers :
        /\ ret[t].op = "from_user_friendly_address"
        /\ ret[t].address[1] = 41
        /\ SubSeq(ret[t].friendly, 1, 9) = <<78, 81, 48, 53, 32, 53, 54, 51, 85>>
        /\ ret[t].parsed.address = {ret[t].address}

\* The connections of the pool in a state, and the last call on the pool.
InState(p, state_name) == {id \in Occupied(p) : InfoOf(p, id).state = state_name}
LastCall == ret[PoolThread]

\* What an accepted connect_outbound(peer_address) does between two pools:
\* one more connection, Connecting and indexed under the peer address, and
\* one more in connecting_count.
OutboundAdded(before, after, peer_address) ==
    \E id \in Occupied(after) \ Occupied(before) :
        /\ Occupied(after) = Occupied(before) \cup {id}
        /\ \A other \in Occupied(before) : InfoOf(after, other) = InfoOf(before, other)
        /\ InfoOf(after, id).state = "Connecting"
        /\ InfoOf(after, id).peer_address = {peer_address}
        /\ after.connections_by_peer_address =
              MapInsert(before.connections_by_peer_address, peer_address, id)
        /\ after.connecting_count = before.connecting_count + 1

\* C23: connect_outbound(p) returns true, adding one Connecting connection
\* indexed under p and one to connecting_count, only if p speaks Ws or Wss, no
\* connection is indexed for p and, for a reliable net address, the
\* connections of its IP and the outbound connections of its subnet are below
\* their limits; otherwise it returns false and leaves the pool as it was.
C23_ConnectOutbound ==
    [][\A peer_address \in PeerAddresses :
          (/\ ret'[PoolThread].op = "connect_outbound"
           /\ ConnectOutbound(peer_address)) =>
              LET call == ret'[PoolThread]
                  net_address == peer_address.net_address
              IN  /\ ~call.panic
                  /\ IF call.value
                     THEN /\ peer_address.protocol \in {"Ws", "Wss"}
                          /\ peer_address \notin DOMAIN pool.connections_by_peer_address
                          /\ \A id \in Occupied(pool) :
                                 InfoOf(pool, id).peer_address # {peer_address}
                          /\ is_reliable(net_address) =>
                                /\ get_num_connections_by_net_address(pool, net_address)
                                       < PEER_COUNT_PER_IP_MAX
                                /\ get_num_outbound_connections_by_subnet(pool, net_address).value
                                       < OUTBOUND_PEER_COUNT_PER_SUBNET_MAX
                          /\ OutboundAdded(pool, pool', peer_address)
                     ELSE pool' = pool]_vars

\* An outbound connection to a reliable address was accepted while the pool
\* held an established peer at another reliable address.
C23_Witness ==
    /\ LastCall.op = "connect_outbound"
    /\ LastCall.value
    /\ ~LastCall.panic
    /\ is_reliable(LastCall.args.net_address)
    /\ DOMAIN pool.connections_by_net_address # {}
    /\ \E id \in InState(pool, "Connecting") : InfoOf(pool, id).peer_address = {LastCall.args}

\* The key under which ban_ip bans a net address: the address for IPv4, its
\* subnet otherwise.
BannedAddress(net_address) ==
    IF net_address.type = "IPv4" THEN net_address ELSE subnet(net_address, BanSubnetMask)
Banned(p, net_address) ==
    is_reliable(net_address) /\ BannedAddress(net_address) \in DOMAIN p.banned_ips

\* C24: connect_outbound never admits a peer whose IP is in banned_ips: from
\* the ban of an IP until its unban, connect_outbound to that IP returns false.
C24_BannedNotAdmitted ==
    (LastCall.op = "connect_outbound" /\ LastCall.value) =>
        ~Banned(pool, LastCall.args.net_address)

\* No call on the pool has aborted so far.
NoAbort == pc[PoolThread] = "idle"

\* C25: on_handshake of an inbound connection resolves a duplicate of its
\* peer address without aborting the pool: against an Established connection
\* the new one is closed, against a Connecting attempt or a Negotiating
\* connection the handshake goes on, and the peer address stays indexed once.
C25_DuplicateResolved ==
    LastCall.op = "on_handshake" =>
        /\ ~LastCall.panic
        /\ \/ LastCall.closed # {}
           \/ /\ LastCall.args.peer.peer_address \in DOMAIN pool.connections_by_peer_address
              /\ pool.connections_by_peer_address[LastCall.args.peer.peer_address]
                    = LastCall.args.id

\* C26: check_handshake returns true exactly when it accepted the handshake
\* and moved the connection to Negotiating, and false exactly when it closed
\* the connection.
C26_CheckHandshakeValue ==
    (LastCall.op = "check_handshake" /\ ~LastCall.panic) =>
        /\ LastCall.value <=> LastCall.args.id \in InState(pool, "Negotiating")
        /\ ~LastCall.value <=> LastCall.closed # {}

\* C27: peer_count() is the number of Established connections, and on_close
\* of an Established connection completes, removing it and decrementing the
\* counters.
C27_PeerCount ==
    /\ peer_count(pool) = Cardinality(InState(pool, "Established"))
    /\ LastCall.op = "on_close" => ~LastCall.panic

\* The inbound connections that have not completed the handshake.
InboundPending(p) ==
    {id \in Occupied(p) :
        /\ InfoOf(p, id).state # "Established"
        /\ \E connection \in InfoOf(p, id).network_connection : connection.inbound}

\* C28: inbound_count is the number of inbound connections that have not
\* completed the handshake.
C28_InboundCount ==
    NoAbort => pool.inbound_count = Cardinality(InboundPending(pool))

\* C29: peer_count_dumb never exceeds PEER_COUNT_DUMB_MAX.
C29_DumbLimit ==
    NoAbort => pool.peer_count_dumb <= PEER_COUNT_DUMB_MAX

\* C30: closing an Established connection of a reliable net address with a
\* banning close type leaves an entry in banned_ips, keyed by the IP (IPv4) or
\* its subnet (IPv6), whose unban_time is 600 seconds after the close.
C30_BanTenMinutes ==
    (/\ LastCall.op = "on_close"
     /\ LastCall.args.info.state = "Established"
     /\ is_banning_type(LastCall.args.ty)) =>
        \A connection \in LastCall.args.info.network_connection :
            is_reliable(connection.net_address) =>
                /\ Banned(pool, connection.net_address)
                /\ pool.banned_ips[BannedAddress(connection.net_address)] = clock + 60 * 10

\* C31: check_connection closes and rejects a new connection that is inbound
\* while allow_inbound_connections is false, whose reliable IP is banned, whose
\* IP or subnet is over its connection limit, or that is inbound without
\* allow_inbound_exchange while peer_count() >= PEER_COUNT_MAX; an outbound
\* connection, or an inbound one with allow_inbound_exchange, is never
\* rejected for PEER_COUNT_MAX.
C31_CheckConnection ==
    (LastCall.op = "on_connection" /\ ~LastCall.panic) =>
        LET connection == LastCall.args
            net_address == connection.net_address
            rejected == LastCall.closed # {}
        IN  /\ (connection.inbound /\ ~pool.allow_inbound_connections) => rejected
            /\ Banned(pool, net_address) => rejected
            /\ (/\ is_reliable(net_address)
                /\ \/ get_num_connections_by_net_address(pool, net_address)
                          > PEER_COUNT_PER_IP_MAX
                   \/ get_num_connections_by_subnet(pool, net_address)
                          > INBOUND_PEER_COUNT_PER_SUBNET_MAX) => rejected
            /\ (/\ peer_count(pool) >= PEER_COUNT_MAX
                /\ connection.inbound
                /\ ~pool.allow_inbound_exchange) => rejected
            /\ (~connection.inbound \/ pool.allow_inbound_exchange) =>
                  \A c \in LastCall.closed : c.ty # "MaxPeerCountReached"

\* The indices of the empty slots of a SparseVec.
EmptySlots(vec) == {index \in 0..(Len(vec.inner) - 1) : SparseVecGet(vec, index) = {}}

\* C33: SparseVec keeps ids stable and unique under any sequence of insert
\* and remove: insert never returns the index of an occupied slot and
\* get(insert(v)) is v, a value stays at its index until removed there, and
\* free_indices holds exactly the indices of the empty slots, each once.
C33_SparseVecIds ==
    LET vec == pool.connections
        call == ret[PoolThread]
    IN  /\ {vec.free_indices[k] : k \in 1..Len(vec.free_indices)} = EmptySlots(vec)
        /\ \A k, l \in 1..Len(vec.free_indices) :
              vec.free_indices[k] = vec.free_indices[l] => k = l
        /\ call.op = "insert" =>
              /\ ~call.panic
              /\ SparseVecGet(call.before, call.value) = {}
              /\ SparseVecGet(vec, call.value) = {call.args}
              /\ \A index \in 0..(Len(call.before.inner) - 1) :
                    index # call.value => SparseVecGet(vec, index) = SparseVecGet(call.before, index)
        /\ call.op = "remove" =>
              \A index \in 0..(Len(call.before.inner) - 1) :
                  index # call.args => SparseVecGet(vec, index) = SparseVecGet(call.before, index)

\* The net address a connection is indexed by: that of its network
\* connection.
NetAddressOf(info) == {connection.net_address : connection \in info.network_connection}

IpOf(info) ==
    IF info.network_connection # {} THEN NetAddressOf(info)
    ELSE {peer_address.net_address : peer_address \in info.peer_address}

\* The connections to net_address that nobody has closed, in any state.
ConnectionsTo(p, net_address) ==
    {id \in Occupied(p) :
        /\ net_address \in IpOf(InfoOf(p, id))
        /\ \A connection \in InfoOf(p, id).network_connection : ~connection.closing}

\* C40: for every reliable IP address the pool never holds more than
\* PEER_COUNT_PER_IP_MAX connections to it, whatever their state, after any
\* sequence of accepted outbound connects, inbound connections and handshakes
\* none of which aborted.
C40_PerIpLimit ==
    NoAbort =>
        \A net_address \in NetAddresses :
            is_reliable(net_address) =>
                Cardinality(ConnectionsTo(pool, net_address)) <= PEER_COUNT_PER_IP_MAX

\* C32: a get_block_locators that ran while blocks were pushed returns
\* hashes that are all on the main chain of one single state, the one before
\* or the one after, and starts with that state's head.  The prev_hash of the
\* genesis block, which the first loop returns up to height 10 with or
\* without a concurrent push, is set aside.
C32_LocatorsSnapshot ==
    \A t \in Readers :
        ret[t].op = "get_block_locators" /\ "after" \in DOMAIN ret[t] =>
            \E seen \in {ret[t].before, ret[t].after} :
                /\ Locators(t)[1] = seen.head_hash
                /\ \A i \in 1..Len(Locators(t)) :
                      Locators(t)[i] \in seen.main_chain \cup {ZeroHash}

\* C34: a push that returned Forked stored exactly one new ChainInfo, under
\* the block's hash, off the main chain and without successor, and changed
\* nothing else: the store's head pointer, the height index, every other
\* ChainInfo, the accounts, the transaction cache, main_chain, head_hash and
\* the cached chain proof are as before, and no event was emitted.
C34_ForkedFrame ==
    \A t \in Threads :
        Returned(t, "Forked") =>
            LET before == Snapshot(t)
                hash == BlockHash(blk[t])
            IN  /\ hash \notin DOMAIN before.kv.chain_db
                /\ DOMAIN kv.chain_db = DOMAIN before.kv.chain_db \cup {hash}
                /\ \A other \in DOMAIN before.kv.chain_db :
                      kv.chain_db[other] = before.kv.chain_db[other]
                /\ kv.chain_db[hash].head = WithoutBody(blk[t])
                /\ ~kv.chain_db[hash].on_main_chain
                /\ kv.chain_db[hash].main_chain_successor = {}
                /\ kv.head = before.kv.head
                /\ kv.height_idx = before.kv.height_idx
                /\ kv.accounts = before.kv.accounts
                /\ state = before.state
                /\ event[t] = <<>>

\* A block with a transaction was stored as a fork next to a main chain of
\* two blocks.
C34_Witness ==
    \E t \in Threads :
        /\ Returned(t, "Forked")
        /\ BodyTxs(blk[t]) # {}
        /\ state.main_chain.head.header.height >= 2

\* C35: whenever a Blockchain exists and no push is in progress, the
\* transaction cache misses TRANSACTION_VALIDITY_WINDOW saturating-minus the
\* head height blocks, after init, after load, after every extend and every
\* rebranch, and a Blockchain loaded from the store at that moment gets the
\* same cache as the running one has.
C35_CacheWindow ==
    Running /\ push_lock = NoThread =>
        /\ cache_missing_blocks(state.transaction_cache)
             = SatSub(TRANSACTION_VALIDITY_WINDOW, state.main_chain.head.header.height)
        /\ ~load(kv, state.head_hash).panic
        /\ load(kv, state.head_hash).state.transaction_cache = state.transaction_cache

\* C36: whenever no thread holds the state write lock, the head pointer of
\* the chain store is the in-memory head_hash, and the ChainInfo stored under
\* it is flagged on_main_chain and equals the in-memory main_chain.
C36_StoreHead ==
    state_lock.writer = NoThread =>
        /\ kv.head = state.head_hash
        /\ get_chain_info(kv, state.head_hash, TRUE) = {state.main_chain}
        /\ state.main_chain.on_main_chain

\* C37: whenever no push is in progress, no ChainInfo in the store has a
\* greater total_difficulty than the main-chain head, and a push that returned
\* left the head's total_difficulty at least what it was when the push began.
C37_HeadHardest ==
    /\ push_lock = NoThread =>
          \A hash \in DOMAIN kv.chain_db :
              kv.chain_db[hash].total_difficulty <= state.main_chain.total_difficulty
    /\ \A t \in Threads :
          pc[t] = "returned" /\ pre[t] # {} =>
              state.main_chain.total_difficulty
                  >= Snapshot(t).state.main_chain.total_difficulty

\* A push rebranched to a harder chain and the reverted head is still stored.
C37_Witness ==
    \E t \in Threads :
        /\ Returned(t, "Rebranched")
        /\ state.main_chain.total_difficulty > Snapshot(t).state.main_chain.total_difficulty
        /\ \E hash \in DOMAIN kv.chain_db :
              /\ ~kv.chain_db[hash].on_main_chain
              /\ kv.chain_db[hash].total_difficulty < state.main_chain.total_difficulty
              /\ kv.chain_db[hash].head.header.height > 1

\* C38: from the delivery of an Extended event until extend returns, the
\* pushing thread holds push_lock and the state read lock; from the delivery of
\* a Rebranched event until rebranch returns it holds push_lock and no state
\* lock; all that time the hash of the Extended event, or of the last adopted
\* block of the Rebranched event, is the in-memory head_hash.
C38_EventLocks ==
    \A t \in Threads :
        /\ pc[t] = "extend_return" =>
              /\ push_lock = t
              /\ t \in state_lock.readers
              /\ state_lock.writer = NoThread
              /\ event[t][Len(event[t])].type = "Extended"
              /\ event[t][Len(event[t])].hash = state.head_hash
        /\ pc[t] = "rebranch_return" =>
              LET adopted == event[t][Len(event[t])].adopted
              IN  /\ push_lock = t
                  /\ t \notin state_lock.readers
                  /\ state_lock.writer # t
                  /\ event[t][Len(event[t])].type = "Rebranched"
                  /\ adopted[Len(adopted)].hash = state.head_hash

\* An Extended event is being delivered above the genesis block while another
\* push waits for push_lock.
C38_Witness ==
    \E t, other \in Threads :
        /\ pc[t] = "extend_return"
        /\ pc[other] = "lock"
        /\ t \in state_lock.readers
        /\ state.main_chain.head.header.height > 2

\* A Rebranched event is being delivered while another push has verified its
\* block and waits for push_lock.
C38_WitnessRebranched ==
    \E t, other \in Threads :
        /\ pc[t] = "rebranch_return"
        /\ pc[other] = "lock"
        /\ state_lock = FreeLock

====
